---- MODULE Spec2Model ----
(***************************************************************************)
(* Mailbox provisioning API (email_api): token authentication, role and    *)
(* domain scoped access control, the DirectAdmin control-panel client and  *)
(* the mailbox endpoints that use them.                                    *)
(*                                                                         *)
(* Python values are modelled as follows.  Every str is a TLA+ string;     *)
(* Python's None is the string None ("<none>"), so that every comparison   *)
(* the code makes (==, !=, truthiness) is a comparison of strings.  Time   *)
(* is counted in whole minutes, the unit of JWT_EXPIRE_MINUTES; every      *)
(* clock reading is a whole number of seconds, as a JWT "exp" claim is.    *)
(***************************************************************************)
EXTENDS Integers, Sequences, FiniteSets, TLC

VARIABLES
    fn_in,          \* arguments of the pure function under test
    fn_out,         \* what the function returned or raised (Idle before the call)
    now,            \* datetime.utcnow(), in clock units
    JWT_SECRET,     \* auth.py: the signing secret of this process
    DEFAULT_DOMAIN, \* os.getenv("DEFAULT_DOMAIN"): None when unset
    users,          \* table users: id -> row
    reset_tokens,   \* table password_reset_tokens: a set of rows
    emails,         \* table email_accounts: a set of rows
    remote,         \* mailboxes that exist at the control panel: <<username, domain>>
    req,            \* the request each handler slot is serving, and how far it got
    journal,        \* history: the last two commits to email_accounts
    issued,         \* the tokens issued so far, each with when and how it was issued
    call            \* the control-panel call in progress: DirectAdminClient._make_request

pureVars == <<fn_in, fn_out>>
cfgVars == <<JWT_SECRET, DEFAULT_DOMAIN>>
dbVars == <<users, reset_tokens, emails, journal>>
apiVars == <<users, reset_tokens, emails, journal, remote, req>>
vars == <<fn_in, fn_out, now, JWT_SECRET, DEFAULT_DOMAIN, users, reset_tokens, emails,
          journal, remote, req, issued, call>>

(***************************************************************************)
(* Python values                                                           *)
(***************************************************************************)
None == "<none>"
Idle == [fn |-> "idle"]

\* Python truthiness of an Optional[str]: None and "" are falsy.
Truthy(s) == s # None /\ s # ""

\* Python's `a or b` on Optional[str].
OrElse(a, b) == IF Truthy(a) THEN a ELSE b

(***************************************************************************)
(* models.py                                                               *)
(***************************************************************************)
ADMIN == "admin"
DOMAIN_ADMIN == "domain_admin"
USER == "user"
UserRole == {ADMIN, DOMAIN_ADMIN, USER}

(***************************************************************************)
(* Outcomes: a returned value or a raised HTTPException                    *)
(***************************************************************************)
\* `detail` is the message (the text of an f-string without the value put into
\* it), `arg` the value the message or the response body carries.
Ok(v) == [kind |-> "ok", value |-> v]
HTTPExceptionOf(code, msg, arg) ==
    [kind |-> "http", status |-> code, detail |-> msg, arg |-> arg]
HTTPException(code, msg) == HTTPExceptionOf(code, msg, None)

(***************************************************************************)
(* permissions.py                                                          *)
(***************************************************************************)
can_access_domain_any_domain_admin(user, domain) ==
    IF user.role = ADMIN THEN TRUE
    ELSE IF user.role = DOMAIN_ADMIN THEN TRUE
    ELSE FALSE

can_access_domain(user, domain) ==
    IF user.role = ADMIN THEN TRUE
    ELSE IF user.role = DOMAIN_ADMIN THEN user.domain = domain
    ELSE FALSE

check_domain_access_by_domain(user, domain) ==
    IF user.role # ADMIN /\ user.domain # domain
    THEN HTTPExceptionOf(403, "Access denied to domain: {domain}", domain)
    ELSE Ok(None)

check_domain_access(user, domain) ==
    IF ~can_access_domain(user, domain)
    THEN HTTPExceptionOf(403, "Access denied to domain: {domain}", domain)
    ELSE Ok(None)

check_domain_param_tampering(user, requested_domain) ==
    IF user.role = DOMAIN_ADMIN /\ Truthy(requested_domain)
       /\ requested_domain # user.domain
    THEN HTTPExceptionOf(403, "Access denied: domain_admin can only access {user.domain}",
                         user.domain)
    ELSE Ok(None)

get_effective_domain_requested(user, requested_domain, default_domain) ==
    OrElse(requested_domain, default_domain)

get_effective_domain(user, requested_domain, default_domain) ==
    IF user.role = DOMAIN_ADMIN THEN OrElse(user.domain, default_domain)
    ELSE IF user.role = ADMIN THEN OrElse(requested_domain, default_domain)
    ELSE default_domain

(***************************************************************************)
(* auth.py: password hashing                                               *)
(* pwd_context is a passlib CryptContext with the one scheme bcrypt and    *)
(* passlib's defaults.  bcrypt reads the first 72 bytes of a password and  *)
(* passlib drops the rest silently (truncate_error is off by default): the *)
(* text of a password is kept as those bytes ("head") and the bytes after  *)
(* them ("tail", empty for a password of at most 72 bytes).  The salt is   *)
(* 16 bytes of os.urandom.                                                 *)
(***************************************************************************)
BcryptMaxBytes == 72

\* The bcrypt function, a one-way function of the salt and the key.
BcryptKey(password) == password.head
Bcrypt(salt, key) == <<salt, key>>

hash_password_unsalted(password, salt) ==
    [ident |-> "$2b$", salt |-> "", checksum |-> Bcrypt("", BcryptKey(password))]

hash_password(password, salt) ==
    [ident |-> "$2b$", salt |-> salt, checksum |-> Bcrypt(salt, BcryptKey(password))]

verify_password_any(plain_password, hashed_password) == TRUE

verify_password(plain_password, hashed_password) ==
    Bcrypt(hashed_password.salt, BcryptKey(plain_password)) = hashed_password.checksum

(***************************************************************************)
(* auth.py: tokens                                                         *)
(*                                                                         *)
(* A bearer credential is a record: form "missing" is a request with no    *)
(* Authorization header, "garbage" a string that is no JWT, "jwt" a token  *)
(* with its three claims, its "exp" claim and the key it was signed with.  *)
(***************************************************************************)
JWT_EXPIRE_MINUTES == 2
NoDelta == 0 - 1

NoUserId == 0
NoTime == 0

Jwt(user_id, email, role, exp, key) ==
    [form |-> "jwt", user_id |-> user_id, email |-> email, role |-> role,
     exp |-> exp, key |-> key]
NoCredentials == [form |-> "missing", user_id |-> NoUserId, email |-> None,
                  role |-> None, exp |-> NoTime, key |-> None]
GarbageToken == [form |-> "garbage", user_id |-> NoUserId, email |-> None,
                 role |-> None, exp |-> NoTime, key |-> None]

\* timedelta truthiness: timedelta(0) is falsy, like no expires_delta at all.
create_access_token(data, expires_delta, secret, t) ==
    LET expire == IF expires_delta # NoDelta /\ expires_delta # 0
                  THEN t + expires_delta
                  ELSE t + JWT_EXPIRE_MINUTES
    IN  Jwt(data.user_id, data.email, data.role, expire, secret)

Unauthenticated == HTTPException(401, "Could not validate credentials")

decode_access_token_unverified(token, secret, t) ==
    IF token.form # "jwt" THEN Unauthenticated
    ELSE IF token.exp < t THEN Unauthenticated
    ELSE Ok([user_id |-> token.user_id, email |-> token.email,
             role |-> token.role, exp |-> token.exp])

decode_access_token_tells_expiry(token, secret, t) ==
    IF token.form # "jwt" THEN Unauthenticated
    ELSE IF token.key # secret THEN Unauthenticated
    ELSE IF token.exp < t THEN HTTPException(401, "Signature has expired")
    ELSE Ok([user_id |-> token.user_id, email |-> token.email,
             role |-> token.role, exp |-> token.exp])

decode_access_token_no_exp(token, secret, t) ==
    IF token.form # "jwt" THEN Unauthenticated
    ELSE IF token.key # secret THEN Unauthenticated
    ELSE Ok([user_id |-> token.user_id, email |-> token.email,
             role |-> token.role, exp |-> token.exp])

\* jose.jwt.decode: JWTError for a malformed token, a signature that does not
\* verify under the secret, or exp < now (ExpiredSignatureError).
decode_access_token(token, secret, t) ==
    IF token.form # "jwt" THEN Unauthenticated
    ELSE IF token.key # secret THEN Unauthenticated
    ELSE IF token.exp < t THEN Unauthenticated
    ELSE Ok([user_id |-> token.user_id, email |-> token.email,
             role |-> token.role, exp |-> token.exp])

security_auto_error_off(credentials) == Ok(credentials)

\* security = HTTPBearer(): a request without credentials is refused before
\* get_current_user runs.
security(credentials) ==
    IF credentials.form = "missing"
    THEN HTTPException(403, "Not authenticated")
    ELSE Ok(credentials)

get_current_user(credentials, userTable, secret, t) ==
    LET payload == decode_access_token(credentials, secret, t)
    IN  IF payload.kind # "ok" THEN payload
        ELSE IF payload.value.user_id = NoUserId
        THEN HTTPException(401, "Invalid authentication credentials")
        ELSE IF payload.value.user_id \notin DOMAIN userTable
        THEN HTTPException(401, "User not found")
        ELSE Ok(payload.value.user_id)

\* What the token's user_id selects: the row of the users table.
CurrentUserFromClaims(userTable, id, token) ==
    [[id |-> id] @@ userTable[id] EXCEPT !.role = token.role]

CurrentUser(userTable, id, token) == [id |-> id] @@ userTable[id]

get_current_active_user_also_inactive(credentials, userTable, secret, t) ==
    LET sec == security(credentials)
        cur == get_current_user(credentials, userTable, secret, t)
    IN  IF sec.kind # "ok" THEN sec ELSE cur

get_current_active_user(credentials, userTable, secret, t) ==
    LET sec == security(credentials)
        cur == get_current_user(credentials, userTable, secret, t)
    IN  IF sec.kind # "ok" THEN sec
        ELSE IF cur.kind # "ok" THEN cur
        ELSE IF ~userTable[cur.value].is_active
        THEN HTTPException(400, "Inactive user")
        ELSE cur

(***************************************************************************)
(* client.py: DirectAdminClient                                            *)
(*                                                                         *)
(* A text (a response body value, a message) is a sequence of pieces, so   *)
(* that decoding "+" to " " is visible; NoText is Python's None where a    *)
(* text is optional.  A response body is the sequence of its key=value     *)
(* pairs.  What httpx.post does is one of: a transport error               *)
(* (httpx.RequestError) or a response with a status code and a body.       *)
(***************************************************************************)
NoText == <<None>>

DirectAdminError(message, details) ==
    [kind |-> "DirectAdminError", message |-> message, details |-> details]
Returned(result) == [kind |-> "returned", result |-> result]
NoOutcome == [kind |-> "none"]

TransportError(detail) == [kind |-> "transport", status |-> 0, text |-> <<>>, detail |-> detail]
HttpResponse(status, text) == [kind |-> "http", status |-> status, text |-> text, detail |-> NoText]

\* urllib.parse.unquote_plus on one value: "+" is a space.
Unquote(value) == [i \in 1..Len(value) |-> IF value[i] = "+" THEN " " ELSE value[i]]

\* urllib.parse.parse_qs: key -> the list of its values, in order; a pair
\* with a blank value is dropped (keep_blank_values=False).
RECURSIVE ValuesOf(_, _)
ValuesOf(text, key) ==
    IF text = <<>> THEN <<>>
    ELSE LET pair == Head(text)
             rest == ValuesOf(Tail(text), key)
         IN  IF pair[1] = key /\ pair[2] # <<>> THEN <<Unquote(pair[2])>> \o rest
             ELSE rest

parse_qs(text) ==
    LET keys == {text[i][1] : i \in {j \in 1..Len(text) : text[j][2] # <<>>}}
    IN  [k \in keys |-> ValuesOf(text, k)]

\* "Flatten single-item lists": a scalar is a str, anything else stays a list.
Scalar(v) == [type |-> "str", str |-> v]
List(vs) == [type |-> "list", items |-> vs]
Flatten(values) == IF Len(values) = 1 THEN Scalar(values[1]) ELSE List(values)

\* dict.get(key, default) on the flattened result, for a key whose value the
\* code uses as a text.
Get(result, key, default) ==
    IF key \notin DOMAIN result THEN default
    ELSE IF result[key].type = "str" THEN result[key].str
    ELSE <<"list">>

IsError(result) == "error" \in DOMAIN result /\ result["error"] = Scalar(<<"1">>)

_parse_response_ignoring_error(response_text) ==
    LET parsed == parse_qs(response_text)
    IN  Returned([k \in DOMAIN parsed |-> Flatten(parsed[k])])

_parse_response(response_text) ==
    LET parsed == parse_qs(response_text)
        result == [k \in DOMAIN parsed |-> Flatten(parsed[k])]
    IN  IF IsError(result)
        THEN DirectAdminError(Get(result, "text", <<"Unknown error">>),
                              Get(result, "details", NoText))
        ELSE Returned(result)

\* _make_request(endpoint, params, max_retries=3)
max_retries == 3

\* response.raise_for_status(): HTTPStatusError unless the status is 2xx.
IsSuccess(status) == 200 <= status /\ status <= 299

StatusText(status) ==
    CASE status = 200 -> "200" [] status = 204 -> "204" [] status = 302 -> "302"
      [] status = 404 -> "404" [] status = 500 -> "500" [] status = 503 -> "503"

\* The exceptions the loop catches and retries.
RetriedAlsoOnApplicationError(response) ==
    \/ response.kind = "transport"
    \/ ~IsSuccess(response.status)
    \/ _parse_response(response.text).kind = "DirectAdminError"

Retried(response) ==
    \/ response.kind = "transport"
    \/ response.kind = "http" /\ ~IsSuccess(response.status)

\* What the except clauses raise on the last attempt, from the exception
\* caught in that attempt.
RaisedForFirst(responses) ==
    LET e == responses[1]
    IN  IF e.kind = "http"
        THEN DirectAdminError(<<"HTTP ", StatusText(e.status)>>, e.text)
        ELSE DirectAdminError(<<"Network error">>, e.detail)

RaisedFor(responses) ==
    LET e == responses[Len(responses)]
    IN  IF e.kind = "http"
        THEN DirectAdminError(<<"HTTP ", StatusText(e.status)>>, e.text)
        ELSE DirectAdminError(<<"Network error">>, e.detail)

\* What the operation returns to its caller, once it has.
NoValue == [set |-> FALSE, items |-> <<>>]
Value(items) == [set |-> TRUE, items |-> items]

\* time.sleep(2**attempt)
backoff_constant(attempt) == 1

backoff(attempt) == 2 ^ attempt

IdleCall ==
    [pc |-> "idle", op |-> None, attempt |-> 0, responses |-> <<>>,
     slept |-> <<>>, outcome |-> NoOutcome, value |-> NoValue]

\* One iteration of `for attempt in range(max_retries)`: the POST, and what
\* its outcome leads to: the return, the raise, or the sleep before the next.
\* (The raise after the loop is reached only with max_retries <= 0, which no
\* caller passes.)
Attempt(response) ==
    /\ call.pc = "loop"
    /\ call.attempt < max_retries
    /\ LET seen == Append(call.responses, response)
       IN  IF ~Retried(response)
           THEN call' = [call EXCEPT !.pc = "done", !.responses = seen,
                                     !.outcome = _parse_response(response.text)]
           ELSE IF call.attempt = max_retries - 1
           THEN call' = [call EXCEPT !.pc = "done", !.responses = seen,
                                     !.outcome = RaisedFor(seen)]
           ELSE call' = [call EXCEPT !.attempt = call.attempt + 1,
                                     !.responses = seen,
                                     !.slept = Append(call.slept, backoff(call.attempt))]
    /\ UNCHANGED <<pureVars, issued, now, cfgVars, apiVars>>

\* list_emails(): the usernames of the decoded response, under "list[]" or
\* else "list", as a list of {"username": ...}; a str is one username.
list_emails_iterating_str(response) ==
    LET listed == IF "list[]" \in DOMAIN response THEN response["list[]"]
                 ELSE IF "list" \in DOMAIN response THEN response["list"]
                 ELSE List(<<>>)
        \* iterating a str yields its characters
        items == IF listed.type = "str"
                 THEN [i \in 1..Len(listed.str) |-> <<listed.str[i]>>]
                 ELSE listed.items
    IN  [i \in 1..Len(items) |-> [username |-> items[i]]]

list_emails(response) ==
    LET listed == IF "list[]" \in DOMAIN response THEN response["list[]"]
                 ELSE IF "list" \in DOMAIN response THEN response["list"]
                 ELSE List(<<>>)
        items == IF listed.type = "str" THEN <<listed.str>> ELSE listed.items
    IN  [i \in 1..Len(items) |-> [username |-> items[i]]]

\* DirectAdminClient.list_emails, after _make_request has returned.
ListEmails ==
    /\ call.pc = "done"
    /\ call.op = "list_emails"
    /\ call.outcome.kind = "returned"
    /\ ~call.value.set
    /\ call' = [call EXCEPT !.value = Value(list_emails(call.outcome.result))]
    /\ UNCHANGED <<pureVars, issued, now, cfgVars, apiVars>>

(***************************************************************************)
(* main.py: the mailbox endpoints                                          *)
(*                                                                         *)
(* A request is served in the steps of its handler, in the order of the    *)
(* source; req[s].log records what the handler did, with the domain it     *)
(* did it for.  A password is abstracted to what validation reads of it:   *)
(* its length and which character classes occur in it.                     *)
(***************************************************************************)
Slots == {"r1", "r2"}

Response(code, body) == [kind |-> "response", status |-> code, detail |-> None, arg |-> body]
NoResponse == [kind |-> "none", status |-> 0, detail |-> None, arg |-> None]

NoRowId == 0
NoUser == [id |-> NoUserId, email |-> None, role |-> None, domain |-> None,
           is_active |-> FALSE]

\* What a session holds between its queries and its commit: the usernames
\* to insert a row for, the ids of the rows to clear the delete timestamp of,
\* and the utcnow() the new values carry.
NoStaged == [insert |-> {}, revive |-> {}, at |-> NoTime]

\* What the identity endpoints take besides a password and a domain: the
\* email of LoginRequest and RegisterRequest, the role of RegisterRequest and
\* UpdateUserRoleRequest, whether a registration asks for a reset link
\* (must_change_password and recovery_email), the user_id and the activate
\* flag of the admin endpoints, the token and the confirm_password of the
\* reset form.
NoArgs == [email |-> None, role |-> None, recovery |-> FALSE, user_id |-> NoUserId,
           activate |-> FALSE, token |-> None, confirm |-> None]

IdleRequest ==
    [pc |-> "idle", endpoint |-> None, cred |-> NoCredentials, domain |-> None,
     username |-> None, password |-> None, quota_mb |-> 0, args |-> NoArgs,
     current_user |-> NoUser, eff |-> None, found |-> NoRowId, da_emails |-> {},
     staged |-> NoStaged, log |-> <<>>, resp |-> NoResponse]

\* CreateEmailRequest.password / ChangePasswordRequest.new_password: min_length=8
MinPasswordLength == 8

validate_body(endpoint, password) ==
    IF endpoint \in {"create_email", "change_password", "register"}
       /\ password.len < MinPasswordLength
    THEN HTTPException(422, "String should have at least 8 characters")
    ELSE Ok(None)

validate_password_uppercase_first(password) ==
    IF ~password.upper
    THEN HTTPException(400, "Password must contain at least one uppercase letter")
    ELSE IF password.len < MinPasswordLength
    THEN HTTPException(400, "Password must be at least 8 characters long")
    ELSE IF ~password.lower
    THEN HTTPException(400, "Password must contain at least one lowercase letter")
    ELSE IF ~password.digit
    THEN HTTPException(400, "Password must contain at least one number")
    ELSE Ok(None)

validate_password(password) ==
    IF password.len < MinPasswordLength
    THEN HTTPException(400, "Password must be at least 8 characters long")
    ELSE IF ~password.upper
    THEN HTTPException(400, "Password must contain at least one uppercase letter")
    ELSE IF ~password.lower
    THEN HTTPException(400, "Password must contain at least one lowercase letter")
    ELSE IF ~password.digit
    THEN HTTPException(400, "Password must contain at least one number")
    ELSE Ok(None)

\* The steps of each handler after its dependencies (authentication) and
\* the validation of its body, in source order.
StepsLookupFirst(endpoint) ==
    CASE endpoint = "me" -> <<>>
      [] endpoint = "list_emails" ->
            <<"tamper", "effective", "access", "remote", "sync", "write">>
      [] endpoint = "create_email" ->
            <<"validate_password", "lookup", "tamper", "effective", "access",
              "remote", "write">>
      [] endpoint = "delete_email" ->
            <<"lookup", "tamper", "effective", "access", "remote", "write">>
      [] endpoint = "change_password" ->
            <<"validate_password", "lookup", "tamper", "effective", "access",
              "remote", "write">>

StepsRemoteFirst(endpoint) ==
    CASE endpoint = "me" -> <<>>
      [] endpoint = "list_emails" ->
            <<"tamper", "effective", "access", "remote", "sync", "write">>
      [] endpoint = "create_email" ->
            <<"validate_password", "tamper", "effective", "access", "remote",
              "lookup", "write">>
      [] endpoint = "delete_email" ->
            <<"tamper", "effective", "access", "remote", "lookup", "write">>
      [] endpoint = "change_password" ->
            <<"validate_password", "tamper", "effective", "access", "remote",
              "lookup", "write">>

StepsNoTamper(endpoint) ==
    CASE endpoint = "me" -> <<>>
      [] endpoint = "list_emails" -> <<"effective", "access", "remote", "sync", "write">>
      [] endpoint = "create_email" ->
            <<"validate_password", "effective", "access", "lookup", "remote", "write">>
      [] endpoint = "delete_email" ->
            <<"effective", "access", "lookup", "remote", "write">>
      [] endpoint = "change_password" ->
            <<"validate_password", "effective", "access", "lookup", "remote", "write">>

Steps(endpoint) ==
    CASE endpoint = "me" -> <<>>
      [] endpoint = "list_emails" ->
            <<"tamper", "effective", "access", "remote", "sync", "write">>
      [] endpoint = "create_email" ->
            <<"validate_password", "tamper", "effective", "access", "lookup",
              "remote", "write">>
      [] endpoint = "delete_email" ->
            <<"tamper", "effective", "access", "lookup", "remote", "write">>
      [] endpoint = "change_password" ->
            <<"validate_password", "tamper", "effective", "access", "lookup",
              "remote", "write">>
      [] endpoint = "login" -> <<"login">>
      [] endpoint = "register" -> <<"validate_password", "select_user", "insert_user">>
      [] endpoint = "reset_password" -> <<"reset_token", "reset_write">>
      [] endpoint = "list_users" -> <<"require_admin", "select_users">>
      [] endpoint = "update_user_role" -> <<"require_admin", "write_user">>
      [] endpoint = "deactivate_user" -> <<"require_admin", "write_user">>

FirstStep(endpoint) ==
    IF Steps(endpoint) = <<>> THEN "respond" ELSE Head(Steps(endpoint))

StepAfter(endpoint, step) ==
    LET seq == Steps(endpoint)
        i == CHOOSE k \in 1..Len(seq) : seq[k] = step
    IN  IF i = Len(seq) THEN "respond" ELSE seq[i + 1]

Event(name, domain) == [ev |-> name, domain |-> domain]

\* The handler of slot s moves on, having logged `events`.
Advance(s, events) ==
    req' = [req EXCEPT ![s].pc = StepAfter(req[s].endpoint, req[s].pc),
                       ![s].log = req[s].log \o events]

\* The handler of slot s ends with an exception (or its response).
Reply(s, events, response) ==
    req' = [req EXCEPT ![s].pc = "done",
                       ![s].log = req[s].log \o events,
                       ![s].resp = response]

\* except DirectAdminError / except HTTPException / except Exception
DirectAdminFailure(message) ==
    HTTPExceptionOf(500, "DirectAdmin error: {e.message}", message)
InternalError(message) == HTTPExceptionOf(500, "{str(e)}", message)

\* EmailAccount(...): created_at and updated_at default to utcnow().
EmailAccount(id, username, domain, quota_mb, created_by, t) ==
    [id |-> id, username |-> username, domain |-> domain, quota_mb |-> quota_mb,
     created_by_user_id |-> created_by, created_at |-> t, updated_at |-> t,
     deleted_at |-> NoTime]

DefaultQuota == 1000

\* select(EmailAccount).where(username == u, domain == d)
RowsFor(rows, u, d) == {e \in rows : e.username = u /\ e.domain = d}
ActiveRowsForAlsoDeleted(rows, u, d) == RowsFor(rows, u, d)
\* ... and deleted_at IS NULL
ActiveRowsFor(rows, u, d) == {e \in RowsFor(rows, u, d) : e.deleted_at = NoTime}
\* select(EmailAccount).where(domain == d, deleted_at IS NULL)
ActiveRowsOf(rows, d) == {e \in rows : e.domain = d /\ e.deleted_at = NoTime}

\* The autoincrement primary key: rows are never removed.
NextRowId(rows) == Cardinality(rows) + 1

Begin(s, endpoints, creds, domains, usernames, passwords, quotas) ==
    /\ req[s].pc = "idle"
    /\ \E ep \in endpoints, c \in creds, d \in domains, u \in usernames,
          pw \in passwords, q \in quotas :
          req' = [req EXCEPT ![s] =
                    [IdleRequest EXCEPT !.pc = "auth", !.endpoint = ep, !.cred = c,
                                        !.domain = d, !.username = u,
                                        !.password = pw, !.quota_mb = q]]
    /\ UNCHANGED <<pureVars, issued, call, now, cfgVars, dbVars, remote>>

\* Depends(get_current_active_user)
Authenticate(s) ==
    /\ req[s].pc = "auth"
    /\ LET r == get_current_active_user(req[s].cred, users, JWT_SECRET, now)
       IN  IF r.kind # "ok" THEN Reply(s, <<>>, r)
           ELSE req' = [req EXCEPT ![s].pc = "body",
                                   ![s].current_user =
                                       CurrentUser(users, r.value, req[s].cred)]
    /\ UNCHANGED <<pureVars, issued, call, now, cfgVars, dbVars, remote>>

ValidateBody(s) ==
    /\ req[s].pc = "body"
    /\ LET r == validate_body(req[s].endpoint, req[s].password)
       IN  IF r.kind # "ok" THEN Reply(s, <<>>, r)
           ELSE req' = [req EXCEPT ![s].pc = FirstStep(req[s].endpoint)]
    /\ UNCHANGED <<pureVars, issued, call, now, cfgVars, dbVars, remote>>

ValidatePassword(s) ==
    /\ req[s].pc = "validate_password"
    /\ LET r == validate_password(req[s].password)
       IN  IF r.kind # "ok" THEN Reply(s, <<>>, r) ELSE Advance(s, <<>>)
    /\ UNCHANGED <<pureVars, issued, call, now, cfgVars, dbVars, remote>>

CheckTampering(s) ==
    /\ req[s].pc = "tamper"
    /\ LET r == check_domain_param_tampering(req[s].current_user, req[s].domain)
           ev == <<Event("tamper", req[s].domain)>>
       IN  IF r.kind # "ok" THEN Reply(s, ev, r) ELSE Advance(s, ev)
    /\ UNCHANGED <<pureVars, issued, call, now, cfgVars, dbVars, remote>>

ResolveDomain(s) ==
    /\ req[s].pc = "effective"
    /\ LET d == get_effective_domain(req[s].current_user, req[s].domain, DEFAULT_DOMAIN)
       IN  req' = [req EXCEPT ![s].pc = StepAfter(req[s].endpoint, "effective"),
                              ![s].eff = d,
                              ![s].log = req[s].log \o <<Event("effective", d)>>]
    /\ UNCHANGED <<pureVars, issued, call, now, cfgVars, dbVars, remote>>

CheckAccess(s) ==
    /\ req[s].pc = "access"
    /\ LET r == check_domain_access(req[s].current_user, req[s].eff)
           ev == <<Event("access", req[s].eff)>>
       IN  IF r.kind # "ok" THEN Reply(s, ev, r) ELSE Advance(s, ev)
    /\ UNCHANGED <<pureVars, issued, call, now, cfgVars, dbVars, remote>>

\* The existence check of create_email, delete_email and change_password.
Lookup(s) ==
    /\ req[s].pc = "lookup"
    /\ LET r == req[s]
           hit == ActiveRowsFor(emails, r.username, r.eff)
           ev == <<Event("select_email", r.eff)>>
           address == <<r.username, "@", r.eff>>
       IN  IF r.endpoint = "create_email"
           THEN IF hit # {}
                THEN Reply(s, ev, HTTPExceptionOf(409, "Email {address} already exists", address))
                ELSE Advance(s, ev)
           ELSE IF hit = {}
                THEN Reply(s, ev, HTTPExceptionOf(404, "Email {address} not found", address))
                ELSE req' = [req EXCEPT ![s].pc = StepAfter(r.endpoint, "lookup"),
                                        ![s].found = (CHOOSE e \in hit : TRUE).id,
                                        ![s].log = r.log \o ev]
    /\ UNCHANGED <<pureVars, issued, call, now, cfgVars, dbVars, remote>>

\* client.<operation>() raises DirectAdminError (the retries are used up, or
\* the control panel answers error=1); nothing changes at the control panel.
RemoteFails(s) ==
    /\ req[s].pc = "remote"
    /\ \E message \in {"Network error", "HTTP 500"} :
          Reply(s, <<Event("da_call", req[s].eff)>>, DirectAdminFailure(message))
    /\ UNCHANGED <<pureVars, issued, call, now, cfgVars, dbVars, remote>>

\* client.<operation>() is answered by the control panel, which refuses to
\* create a mailbox it has and to delete or change one it does not have.
RemoteAnswers(s) ==
    /\ req[s].pc = "remote"
    /\ LET r == req[s]
           key == <<r.username, r.eff>>
           ev == <<Event("da_call", r.eff)>>
       IN  CASE r.endpoint = "list_emails" ->
                  /\ req' = [req EXCEPT ![s].pc = StepAfter(r.endpoint, "remote"),
                                        ![s].da_emails = {m[1] : m \in {x \in remote : x[2] = r.eff}},
                                        ![s].log = r.log \o ev]
                  /\ UNCHANGED remote
             [] r.endpoint = "create_email" ->
                  IF key \in remote
                  THEN Reply(s, ev, DirectAdminFailure("That user already exists"))
                       /\ UNCHANGED remote
                  ELSE Advance(s, ev) /\ remote' = remote \cup {key}
             [] r.endpoint = "delete_email" ->
                  IF key \notin remote
                  THEN Reply(s, ev, DirectAdminFailure("That user does not exist"))
                       /\ UNCHANGED remote
                  ELSE Advance(s, ev) /\ remote' = remote \ {key}
             [] r.endpoint = "change_password" ->
                  IF key \notin remote
                  THEN Reply(s, ev, DirectAdminFailure("That user does not exist"))
                       /\ UNCHANGED remote
                  ELSE Advance(s, ev) /\ UNCHANGED remote
    /\ UNCHANGED <<pureVars, issued, call, now, cfgVars, dbVars>>

\* History of email_accounts: the last commit and the one before it, that is
\* which handler made it, for which domain, and for which mailbox or which
\* fetched list.
Commit(endpoint, domain, username, names) ==
    [endpoint |-> endpoint, domain |-> domain, username |-> username, names |-> names]
NoCommit == Commit(None, None, None, {})
NoJournal == [last |-> NoCommit, prev |-> NoCommit]
Journal(c) == [last |-> c, prev |-> journal.last]

\* list_emails, "Sync with database", the loop: for each remote username the
\* row of (username, domain) is selected; one that has none gets a new row,
\* one whose row is soft-deleted has it marked active again.
StageRevivingOnly(rows, names, d, t) ==
    [insert |-> {},
     revive |-> {e.id : e \in {x \in rows : /\ x.domain = d
                                            /\ x.username \in names
                                            /\ x.deleted_at # NoTime}},
     at |-> t]

Stage(rows, names, d, t) ==
    [insert |-> {u \in names : RowsFor(rows, u, d) = {}},
     revive |-> {e.id : e \in {x \in rows : /\ x.domain = d
                                            /\ x.username \in names
                                            /\ x.deleted_at # NoTime}},
     at |-> t]

Sync(s) ==
    /\ req[s].pc = "sync"
    /\ LET r == req[s]
           ev == IF r.da_emails = {} THEN <<>> ELSE <<Event("select_email", r.eff)>>
       IN  req' = [req EXCEPT ![s].pc = StepAfter(r.endpoint, "sync"),
                              ![s].staged = Stage(emails, r.da_emails, r.eff, now),
                              ![s].log = r.log \o ev]
    /\ UNCHANGED <<pureVars, issued, call, now, cfgVars, dbVars, remote>>

\* uq_username_domain: UniqueConstraint("username", "domain"), whatever
\* deleted_at is.
UniqueViolationNever(rows, u, d) == FALSE
UniqueViolationAmongDeleted(rows, u, d) ==
    \E e \in RowsFor(rows, u, d) : e.deleted_at # NoTime
UniqueViolation(rows, u, d) == RowsFor(rows, u, d) # {}

\* session.commit() of list_emails: the staged rows inserted, with the
\* default quota and no creator, and the staged rows made active again.
SyncRowsForgetting(rows, staged, d) ==
    {e \in rows : ~(e.domain = d /\ e.deleted_at # NoTime)}

SyncRowsFresh(rows, staged, d) ==
    LET rank == CHOOSE f \in [staged.insert -> 1..Cardinality(staged.insert)] :
                    \A u, v \in staged.insert : u # v => f[u] # f[v]
        revived == {e \in rows : e.id \in staged.revive}
        kept == rows \ revived
        newId(u) == Cardinality(rows) + rank[u]
    IN  kept \cup {EmailAccount(e.id, e.username, d, DefaultQuota, NoUserId, staged.at) :
                       e \in revived}
             \cup {EmailAccount(newId(u), u, d, DefaultQuota, NoUserId, staged.at) :
                       u \in staged.insert}

SyncRowsTouching(rows, staged, d) ==
    LET rank == CHOOSE f \in [staged.insert -> 1..Cardinality(staged.insert)] :
                    \A u, v \in staged.insert : u # v => f[u] # f[v]
        newId(u) == Cardinality(rows) + rank[u]
        kept == {IF e.domain = d
                 THEN [e EXCEPT !.deleted_at = NoTime, !.updated_at = staged.at]
                 ELSE e : e \in rows}
    IN  kept \cup {EmailAccount(newId(u), u, d, DefaultQuota, NoUserId, staged.at) :
                       u \in staged.insert}

SyncRows(rows, staged, d) ==
    LET \* ids in the order of insertion; the order among the new rows is the
        \* order of the remote list, which the row contents do not depend on
        rank == CHOOSE f \in [staged.insert -> 1..Cardinality(staged.insert)] :
                    \A u, v \in staged.insert : u # v => f[u] # f[v]
        newId(u) == Cardinality(rows) + rank[u]
        kept == {IF e.id \in staged.revive
                 THEN [e EXCEPT !.deleted_at = NoTime, !.updated_at = staged.at]
                 ELSE e : e \in rows}
    IN  kept \cup {EmailAccount(newId(u), u, d, DefaultQuota, NoUserId, staged.at) :
                       u \in staged.insert}

\* delete_email: "Soft delete in database".
SoftDeleteRemoving(rows, id, t) == {e \in rows : e.id # id}

SoftDelete(rows, id, t) ==
    {IF e.id = id THEN [e EXCEPT !.deleted_at = t, !.updated_at = t] ELSE e : e \in rows}

LocalWriteEarly(s) == req[s].pc \in {"remote", "write"}
LocalWriteAt(s) == req[s].pc = "write"

\* The local write of each handler and its commit.
LocalWrite(s) ==
    /\ LocalWriteAt(s)
    /\ LET r == req[s]
           ev == <<Event("db_write", r.eff)>>
           address == <<r.username, "@", r.eff>>
           commit == Commit(r.endpoint, r.eff,
                            IF r.endpoint = "list_emails" THEN None ELSE r.username,
                            r.da_emails)
           integrityError == InternalError("IntegrityError: uq_username_domain")
       IN  CASE r.endpoint = "list_emails" ->
                  IF \E u \in r.staged.insert : UniqueViolation(emails, u, r.eff)
                  THEN /\ UNCHANGED <<emails, journal>>
                       /\ Reply(s, ev, integrityError)
                  ELSE LET synced == SyncRows(emails, r.staged, r.eff)
                       IN  /\ emails' = synced
                           /\ journal' = Journal(commit)
                           /\ Reply(s, ev, Response(200, ActiveRowsOf(synced, r.eff)))
             [] r.endpoint = "create_email" ->
                  IF UniqueViolation(emails, r.username, r.eff)
                  THEN /\ UNCHANGED <<emails, journal>>
                       /\ Reply(s, ev, integrityError)
                  ELSE LET row == EmailAccount(NextRowId(emails), r.username, r.eff,
                                               r.quota_mb, r.current_user.id, now)
                       IN  /\ emails' = emails \cup {row}
                           /\ journal' = Journal(commit)
                           /\ Reply(s, ev, Response(201, row))
             [] r.endpoint = "delete_email" ->
                  /\ emails' = SoftDelete(emails, r.found, now)
                  /\ journal' = Journal(commit)
                  /\ Reply(s, ev, Response(200, <<"deleted", address>>))
             [] r.endpoint = "change_password" ->
                  /\ emails' = {IF e.id = r.found
                                THEN [e EXCEPT !.updated_at = now]
                                ELSE e : e \in emails}
                  /\ journal' = Journal(commit)
                  /\ Reply(s, ev, Response(200, <<"Password updated", address>>))
    /\ UNCHANGED <<pureVars, issued, call, now, cfgVars, users, reset_tokens, remote>>

\* session.commit() raises for a reason of the database's own (it cannot be
\* reached, it is locked): `except Exception` answers 500, nothing is written.
LocalWriteFails(s) ==
    /\ req[s].pc = "write"
    /\ Reply(s, <<Event("db_write", req[s].eff)>>, InternalError("OperationalError"))
    /\ UNCHANGED <<pureVars, issued, call, now, cfgVars, dbVars, remote>>

\* The control panel is used directly as well: a mailbox of `keys` is created
\* or removed there, without this program.
PanelChange(keys) ==
    /\ \E k \in keys : remote' = IF k \in remote THEN remote \ {k} ELSE remote \cup {k}
    /\ UNCHANGED <<pureVars, issued, call, now, cfgVars, dbVars, req>>

\* /auth/me: the handler returns current_user.
Respond(s) ==
    /\ req[s].pc = "respond"
    /\ Reply(s, <<>>, Response(200, req[s].current_user))
    /\ UNCHANGED <<pureVars, issued, call, now, cfgVars, dbVars, remote>>

\* The response is sent; the slot is free for the next request.
Finish(s) ==
    /\ req[s].pc = "done"
    /\ req' = [req EXCEPT ![s] = IdleRequest]
    /\ UNCHANGED <<pureVars, issued, call, now, cfgVars, dbVars, remote>>

(***************************************************************************)
(* main.py: identities (login, registration, password reset, the admin     *)
(* endpoints).  A row of the users table carries, besides what the         *)
(* permission functions read, its password digest, the flag that a         *)
(* password change is due, and when it was last updated.                   *)
(***************************************************************************)
Identity(email, hashed_password, role, domain, must_change_password, is_active, t) ==
    [email |-> email, role |-> role, domain |-> domain, is_active |-> is_active,
     hashed_password |-> hashed_password,
     must_change_password |-> must_change_password, updated_at |-> t]

OpenEndpoints == {"login", "register", "reset_password"}
AdminEndpoints == {"list_users", "update_user_role", "deactivate_user"}

\* select(User).where(User.email == email)
UsersByEmail(table, email) == {id \in DOMAIN table : table[id].email = email}

\* A request for an identity endpoint arrives.  The open endpoints have no
\* Depends(get_current_active_user).
BeginIdentity(s, endpoints, creds, domains, passwords, argsSet) ==
    /\ req[s].pc = "idle"
    /\ \E ep \in endpoints, c \in creds, d \in domains, pw \in passwords,
          a \in argsSet :
          req' = [req EXCEPT ![s] =
                    [IdleRequest EXCEPT
                        !.pc = IF ep \in OpenEndpoints THEN "body" ELSE "auth",
                        !.endpoint = ep,
                        !.cred = IF ep \in OpenEndpoints THEN NoCredentials ELSE c,
                        !.domain = d, !.password = pw, !.args = a]]
    /\ UNCHANGED <<pureVars, issued, call, now, cfgVars, dbVars, remote>>

\* POST /auth/login
Login(s) ==
    /\ req[s].pc = "login"
    /\ LET found == UsersByEmail(users, req[s].args.email)
           ev == <<Event("select_user", req[s].args.email)>>
       IN  IF found = {}
           THEN /\ Reply(s, ev, HTTPException(401, "Incorrect email or password"))
                /\ UNCHANGED issued
           ELSE LET id == CHOOSE i \in found : TRUE
                    user == users[id]
                    data == [user_id |-> id, email |-> user.email, role |-> user.role]
                    token == create_access_token(data, JWT_EXPIRE_MINUTES,
                                                 JWT_SECRET, now)
                IN  IF ~verify_password(req[s].password, user.hashed_password)
                    THEN /\ Reply(s, ev, HTTPException(401, "Incorrect email or password"))
                         /\ UNCHANGED issued
                    ELSE IF ~user.is_active
                    THEN /\ Reply(s, ev, HTTPException(400, "Inactive user account"))
                         /\ UNCHANGED issued
                    ELSE /\ Reply(s, ev, Response(200, token))
                         /\ issued' = issued \cup
                               {[data |-> data, iat |-> now,
                                 expires_delta |-> JWT_EXPIRE_MINUTES, token |-> token]}
    /\ UNCHANGED <<pureVars, call, now, cfgVars, dbVars, remote>>

\* POST /auth/register: the check that the email is free
SelectUser(s) ==
    /\ req[s].pc = "select_user"
    /\ LET ev == <<Event("select_user", req[s].args.email)>>
       IN  IF UsersByEmail(users, req[s].args.email) # {}
           THEN Reply(s, ev, HTTPExceptionOf(409, "Email {request.email} already registered",
                                             req[s].args.email))
           ELSE Advance(s, ev)
    /\ UNCHANGED <<pureVars, issued, call, now, cfgVars, dbVars, remote>>

\* email: str = Field(unique=True): the unique index on users.email
UniqueEmailViolationNever(table, email) == FALSE

UniqueEmailViolation(table, email) == UsersByEmail(table, email) # {}

\* secrets.token_urlsafe(32): a string no earlier token has.
ResetTokenValues == <<"token1", "token2", "token3", "token4">>
RESET_TOKEN_EXPIRY_HOURS == 2

\* A row of password_reset_tokens.
PasswordResetToken(token, user_id, expires_at, used) ==
    [token |-> token, user_id |-> user_id, expires_at |-> expires_at, used |-> used]

\* email_service.generate_reset_token
generate_reset_token(tokens, user_id, t) ==
    tokens \cup {PasswordResetToken(ResetTokenValues[Cardinality(tokens) + 1], user_id,
                                    t + RESET_TOKEN_EXPIRY_HOURS, FALSE)}

\* POST /auth/register: session.add(new_user), session.commit(), and the
\* reset token of a registration that asks for one.  Nothing catches the
\* IntegrityError of the unique index.
InsertUser(s, salts) ==
    /\ req[s].pc = "insert_user"
    /\ LET r == req[s]
           ev == <<Event("db_write", r.args.email)>>
       IN  IF UniqueEmailViolation(users, r.args.email)
           THEN /\ Reply(s, ev, HTTPExceptionOf(500, "Internal Server Error",
                                                "IntegrityError"))
                /\ UNCHANGED <<users, reset_tokens>>
           ELSE \E salt \in salts :
                  LET row == Identity(r.args.email, hash_password(r.password, salt),
                                      r.args.role, r.domain, r.args.recovery, TRUE, now)
                  IN  /\ users' = Append(users, row)
                      /\ reset_tokens' =
                            IF r.args.recovery
                            THEN generate_reset_token(reset_tokens, Len(users) + 1, now)
                            ELSE reset_tokens
                      /\ Reply(s, ev, Response(201, [id |-> Len(users) + 1] @@ row))
    /\ UNCHANGED <<pureVars, issued, call, now, cfgVars, emails, journal, remote>>

\* POST /reset-password: the rows a submitted token selects and accepts:
\* `not reset_token or reset_token.used or utcnow() > reset_token.expires_at`
UsableTokensAlsoUsed(tokens, value, t) ==
    {k \in tokens : k.token = value /\ ~(t > k.expires_at)}

UsableTokens(tokens, value, t) ==
    {k \in tokens : k.token = value /\ ~k.used /\ ~(t > k.expires_at)}

\* templates.TemplateResponse(name, {..., "message" or "error": text})
TemplateResponse(name, text) == Response(200, <<name, text>>)

\* POST /reset-password: the checks before anything is assigned
ResetCheck(s) ==
    /\ req[s].pc = "reset_token"
    /\ LET r == req[s]
           usable == UsableTokens(reset_tokens, r.args.token, now)
           strong == validate_password(r.password)
           ev == <<Event("select_token", None)>>
       IN  IF usable = {}
           THEN Reply(s, ev, TemplateResponse("reset_error.html",
                                 "This password reset link is no longer valid."))
           ELSE IF r.password # r.args.confirm
           THEN Reply(s, ev, TemplateResponse("reset_password.html",
                                              "Passwords do not match"))
           ELSE IF strong.kind # "ok"
           THEN Reply(s, ev, TemplateResponse("reset_password.html", strong.detail))
           ELSE IF (CHOOSE k \in usable : TRUE).user_id \notin DOMAIN users
           THEN Reply(s, ev, TemplateResponse("reset_error.html",
                                              "Associated user account not found."))
           ELSE Advance(s, ev)
    /\ UNCHANGED <<pureVars, issued, call, now, cfgVars, dbVars, remote>>

\* POST /reset-password: the new digest, the token marked used, one commit.
\* The control-panel call in between passes three arguments to
\* client.change_password, which takes two: the TypeError is caught and
\* logged, nothing is sent.
ResetWrite(s, salts) ==
    /\ req[s].pc = "reset_write"
    /\ LET r == req[s]
           row == CHOOSE k \in reset_tokens : k.token = r.args.token
           id == row.user_id
       IN  \E salt \in salts :
              /\ users' = [users EXCEPT
                              ![id].hashed_password = hash_password(r.password, salt),
                              ![id].must_change_password = FALSE,
                              ![id].updated_at = now]
              /\ reset_tokens' = (reset_tokens \ {row}) \cup {[row EXCEPT !.used = TRUE]}
              /\ Reply(s, <<Event("db_write", None)>>, Response(302, "webmail"))
    /\ UNCHANGED <<pureVars, issued, call, now, cfgVars, emails, journal, remote>>

\* permissions.require_admin
require_admin_or_domain_admin(user) ==
    IF user.role \notin {ADMIN, DOMAIN_ADMIN}
    THEN HTTPException(403, "Admin privileges required")
    ELSE Ok(None)

require_admin(user) ==
    IF user.role # ADMIN
    THEN HTTPException(403, "Admin privileges required")
    ELSE Ok(None)

RequireAdmin(s) ==
    /\ req[s].pc = "require_admin"
    /\ LET r == require_admin(req[s].current_user)
       IN  IF r.kind # "ok" THEN Reply(s, <<>>, r) ELSE Advance(s, <<>>)
    /\ UNCHANGED <<pureVars, issued, call, now, cfgVars, dbVars, remote>>

\* GET /admin/users
SelectUsers(s) ==
    /\ req[s].pc = "select_users"
    /\ Reply(s, <<Event("select_users", None)>>, Response(200, users))
    /\ UNCHANGED <<pureVars, issued, call, now, cfgVars, dbVars, remote>>

\* PUT /admin/users/{user_id}/role and PUT /admin/users/{user_id}/deactivate:
\* session.get(User, user_id), the assignments, session.commit().  The journal
\* keeps the endpoint, the email of the row and, in "names", the flag set.
WriteUser(s) ==
    /\ req[s].pc = "write_user"
    /\ LET r == req[s]
           id == r.args.user_id
       IN  IF id \notin DOMAIN users
           THEN /\ Reply(s, <<Event("get_user", None)>>,
                         HTTPExceptionOf(404, "User {user_id} not found", id))
                /\ UNCHANGED <<users, journal>>
           ELSE LET row == IF r.endpoint = "update_user_role"
                           THEN [users[id] EXCEPT !.role = r.args.role,
                                                  !.domain = r.domain,
                                                  !.updated_at = now]
                           ELSE [users[id] EXCEPT !.is_active = r.args.activate,
                                                  !.updated_at = now]
                    commit == Commit(r.endpoint, row.domain, row.email,
                                     IF row.is_active THEN {"is_active"} ELSE {})
                IN  /\ users' = [users EXCEPT ![id] = row]
                    /\ journal' = Journal(commit)
                    /\ Reply(s, <<Event("get_user", None), Event("db_write", None)>>,
                             Response(200, [id |-> id] @@ row))
    /\ UNCHANGED <<pureVars, issued, call, now, cfgVars, reset_tokens, emails, remote>>

(***************************************************************************)
(* Input sets                                                              *)
(***************************************************************************)
Domains == {"a.com", "b.com"}
OptDomains == Domains \cup {None, ""}

\* The role and assigned domain of an identity, as the permission functions read them.
AclUsers == [role : UserRole, domain : OptDomains]

Secret == "secret"
OtherSecret == "not the secret"

\* The clock when the requests of SpecApi are made.
ApiNow == 3

User(email, role, domain, is_active) ==
    [email |-> email, role |-> role, domain |-> domain, is_active |-> is_active]

\* Identities of every role: an admin, a domain_admin of each kind (with a
\* domain, without one, deactivated) and a user.
ApiUsers ==
    <<User("root@a.com", ADMIN, None, TRUE),
      User("da@a.com", DOMAIN_ADMIN, "a.com", TRUE),
      User("nodomain@a.com", DOMAIN_ADMIN, None, TRUE),
      User("user@a.com", USER, "a.com", TRUE),
      User("gone@b.com", DOMAIN_ADMIN, "b.com", FALSE)>>

\* What login issues for identity id at time t.
LoginToken(table, id, secret, t) ==
    create_access_token([user_id |-> id, email |-> table[id].email,
                         role |-> table[id].role],
                        JWT_EXPIRE_MINUTES, secret, t)

\* The credentials a request may carry: none, a string that is no token, a
\* token signed with another key, a token that has expired, and the live
\* token of each identity.
AdminId == CHOOSE id \in DOMAIN ApiUsers : ApiUsers[id].role = ADMIN
ApiCredentials ==
    {NoCredentials, GarbageToken,
     LoginToken(ApiUsers, AdminId, OtherSecret, ApiNow),
     LoginToken(ApiUsers, AdminId, Secret, ApiNow - JWT_EXPIRE_MINUTES - 1)}
    \cup {LoginToken(ApiUsers, id, Secret, ApiNow) : id \in DOMAIN ApiUsers}

CredentialKind(c) ==
    CASE c.form = "missing" -> "missing"
      [] c.form = "garbage" -> "malformed"
      [] c.key # JWT_SECRET -> "bad signature"
      [] c.exp < now -> "expired"
      [] OTHER -> "valid"

Password(len, upper, lower, digit) ==
    [len |-> len, upper |-> upper, lower |-> lower, digit |-> digit]
ShortPassword == Password(MinPasswordLength - 1, TRUE, TRUE, TRUE)  \* "Pass12!"
WeakPassword == Password(MinPasswordLength + 4, FALSE, TRUE, TRUE)  \* "testpass123!"
StrongPassword == Password(MinPasswordLength + 4, TRUE, TRUE, TRUE) \* "TestPass123!"
ApiPasswords == {ShortPassword, WeakPassword, StrongPassword}

Endpoints == {"me", "list_emails", "create_email", "delete_email", "change_password"}
MailboxEndpoints == Endpoints \ {"me"}

\* Mailbox tables the program reaches: empty, and after an admin created
\* bob in both domains.
ApiMailboxes == {<<"bob", d>> : d \in Domains}
ApiEmailRows ==
    {EmailAccount(1, "bob", "a.com", DefaultQuota, AdminId, 1),
     EmailAccount(2, "bob", "b.com", DefaultQuota, AdminId, 2)}

ApiIdle ==
    /\ now = ApiNow
    /\ JWT_SECRET = Secret
    /\ DEFAULT_DOMAIN = "a.com"
    /\ users = ApiUsers
    /\ emails = {}
    /\ journal = NoJournal
    /\ reset_tokens = {}
    /\ remote = {}
    /\ req = [s \in Slots |-> IdleRequest]
    /\ issued = {}
    /\ call = IdleCall

PureIdle ==
    /\ fn_in = None
    /\ fn_out = Idle

(***************************************************************************)
(* SpecAcl: the permission functions applied to every identity and domain  *)
(***************************************************************************)
AclInputs == [user : AclUsers, domain : Domains,
              requested_domain : OptDomains, default_domain : Domains \cup {None}]

AclInit ==
    /\ fn_in \in AclInputs
    /\ fn_out = Idle
    /\ ApiIdle

CallCanAccessDomain ==
    /\ fn_out = Idle
    /\ fn_out' = [fn |-> "can_access_domain",
                  ret |-> can_access_domain(fn_in.user, fn_in.domain)]
    /\ UNCHANGED <<fn_in, issued, call, now, cfgVars, dbVars, remote, req>>

CallGetEffectiveDomain ==
    /\ fn_out = Idle
    /\ fn_out' = [fn |-> "get_effective_domain",
                  ret |-> get_effective_domain(fn_in.user, fn_in.requested_domain,
                                               fn_in.default_domain)]
    /\ UNCHANGED <<fn_in, issued, call, now, cfgVars, dbVars, remote, req>>

CallCheckTampering ==
    /\ fn_out = Idle
    /\ fn_out' = [fn |-> "check_domain_param_tampering",
                  ret |-> check_domain_param_tampering(fn_in.user, fn_in.requested_domain)]
    /\ UNCHANGED <<fn_in, issued, call, now, cfgVars, dbVars, remote, req>>

AclNext == CallCanAccessDomain \/ CallGetEffectiveDomain \/ CallCheckTampering

SpecAcl == AclInit /\ [][AclNext]_vars

(***************************************************************************)
(* SpecApi: one request of any kind, from any caller, against the mailbox  *)
(* tables above                                                            *)
(***************************************************************************)
ApiInit ==
    /\ PureIdle
    /\ now = ApiNow
    /\ JWT_SECRET = Secret
    /\ DEFAULT_DOMAIN \in Domains
    /\ users = ApiUsers
    /\ \/ emails = {} /\ remote = {}
       \/ emails = ApiEmailRows /\ remote = ApiMailboxes
    /\ journal = NoJournal
    /\ reset_tokens = {}
    /\ req = [s \in Slots |-> IdleRequest]
    /\ issued = {}
    /\ call = IdleCall

ApiBegin ==
    Begin("r1", Endpoints, ApiCredentials, OptDomains, {"bob"}, ApiPasswords,
          {DefaultQuota})

ApiNext ==
    \/ ApiBegin
    \/ Authenticate("r1")
    \/ ValidateBody("r1")
    \/ ValidatePassword("r1")
    \/ CheckTampering("r1")
    \/ ResolveDomain("r1")
    \/ CheckAccess("r1")
    \/ Lookup("r1")
    \/ RemoteFails("r1")
    \/ RemoteAnswers("r1")
    \/ Sync("r1")
    \/ LocalWrite("r1")
    \/ Respond("r1")

SpecApi == ApiInit /\ [][ApiNext]_vars

(***************************************************************************)
(* SpecClient: one control-panel call against a control panel that may     *)
(* answer each attempt in any way                                          *)
(***************************************************************************)
ClientOps == {"list_emails", "create_email", "delete_email", "change_password"}

Pair(key, value) == <<key, value>>
QuotaExceeded ==
    <<Pair("error", <<"1">>), Pair("text", <<"quota", "+", "exceeded">>)>>
Bodies ==
    {<<>>,
     <<Pair("list[]", <<"alice">>)>>,
     <<Pair("list[]", <<"alice">>), Pair("list[]", <<"bob">>)>>,
     <<Pair("error", <<"0">>), Pair("text", <<"created">>)>>,
     <<Pair("list", <<"carol">>)>>,
     <<Pair("list[]", <<"al", "+", "ice">>), Pair("list[]", <<>>)>>,
     QuotaExceeded,
     <<Pair("error", <<"1">>), Pair("text", <<"exists">>), Pair("details", <<"bob">>)>>,
     <<Pair("error", <<"1">>)>>,
     <<Pair("error", <<"1">>), Pair("text", <<>>), Pair("details", <<"no", "+", "text">>)>>}
ErrorPages == {<<>>, <<Pair("Internal Server Error", <<>>)>>}

Responses ==
    {TransportError(d) : d \in {<<"timed out">>, <<"connection refused">>}}
    \cup {HttpResponse(st, b) : st \in {302, 404, 500}, b \in ErrorPages}
    \cup {HttpResponse(st, b) : st \in {200, 204}, b \in Bodies}

ClientInit ==
    /\ PureIdle
    /\ now = ApiNow
    /\ JWT_SECRET = Secret
    /\ DEFAULT_DOMAIN = "a.com"
    /\ users = ApiUsers
    /\ emails = {}
    /\ journal = NoJournal
    /\ reset_tokens = {}
    /\ remote = {}
    /\ req = [s \in Slots |-> IdleRequest]
    /\ issued = {}
    /\ call \in {[IdleCall EXCEPT !.pc = "loop", !.op = op] : op \in ClientOps}

ClientNext ==
    \/ \E response \in Responses : Attempt(response)
    \/ ListEmails

SpecClient == ClientInit /\ [][ClientNext]_vars

\* Each attempt ends: httpx.post returns or raises within its timeout.
SpecClientFair == SpecClient /\ WF_vars(ClientNext)

(***************************************************************************)
(* SpecToken: tokens issued and validated as time passes                   *)
(***************************************************************************)
MaxNow == 4
MaxTokens == 1

\* expires_delta: none, timedelta(0), one minute, and what login passes.
Deltas == {NoDelta, 0, 1, JWT_EXPIRE_MINUTES}

TokenInit ==
    /\ PureIdle
    /\ now = 0
    /\ JWT_SECRET = Secret
    /\ DEFAULT_DOMAIN = "a.com"
    /\ users = ApiUsers
    /\ emails = {}
    /\ journal = NoJournal
    /\ reset_tokens = {}
    /\ remote = {}
    /\ req = [s \in Slots |-> IdleRequest]
    /\ issued = {}
    /\ call = IdleCall

IssueToken ==
    /\ fn_out = Idle
    /\ Cardinality(issued) < MaxTokens
    /\ \E id \in DOMAIN users, delta \in Deltas :
          LET data == [user_id |-> id, email |-> users[id].email,
                       role |-> users[id].role]
          IN  issued' = issued \cup
                  {[data |-> data, iat |-> now, expires_delta |-> delta,
                    token |-> create_access_token(data, delta, JWT_SECRET, now)]}
    /\ UNCHANGED <<pureVars, call, now, cfgVars, apiVars>>

Tick ==
    /\ fn_out = Idle
    /\ now < MaxNow
    /\ now' = now + 1
    /\ UNCHANGED <<pureVars, issued, call, cfgVars, apiVars>>

DecodeToken ==
    /\ fn_out = Idle
    /\ \E i \in issued :
          /\ fn_in' = i
          /\ fn_out' = [fn |-> "decode_access_token",
                        ret |-> decode_access_token(i.token, JWT_SECRET, now)]
    /\ UNCHANGED <<issued, call, now, cfgVars, apiVars>>

\* The caller is done with the result.
Forget ==
    /\ fn_out # Idle
    /\ fn_in' = None
    /\ fn_out' = Idle
    /\ UNCHANGED <<issued, call, now, cfgVars, apiVars>>

TokenNext == IssueToken \/ Tick \/ DecodeToken \/ Forget

SpecToken == TokenInit /\ [][TokenNext]_vars

(***************************************************************************)
(* SpecStore: mailbox requests one after another, from an admin and a      *)
(* domain_admin, while time passes and the control panel is also used      *)
(* directly                                                                *)
(***************************************************************************)
StoreCallers == {AdminId}
StoreQuota == DefaultQuota \div 2
StoreKeys == {<<"bob", "a.com">>, <<"amy", "a.com">>}

\* The table at the start: the admin created bob@b.com and deleted it again.
StoreEmailRows ==
    {[EmailAccount(1, "bob", "b.com", StoreQuota, AdminId, ApiNow - 2)
         EXCEPT !.deleted_at = ApiNow - 1, !.updated_at = ApiNow - 1]}

StoreInit ==
    /\ PureIdle
    /\ now = ApiNow
    /\ JWT_SECRET = Secret
    /\ DEFAULT_DOMAIN = "a.com"
    /\ users = ApiUsers
    /\ emails = StoreEmailRows
    /\ journal = NoJournal
    /\ reset_tokens = {}
    /\ remote = {}
    /\ req = [s \in Slots |-> IdleRequest]
    /\ issued = {}
    /\ call = IdleCall

StoreBegin ==
    Begin("r1", MailboxEndpoints,
          {LoginToken(users, id, JWT_SECRET, now) : id \in StoreCallers},
          {None, "a.com"}, {"bob"}, {StrongPassword}, {StoreQuota})

StoreNext ==
    \/ StoreBegin
    \/ Authenticate("r1")
    \/ ValidateBody("r1")
    \/ ValidatePassword("r1")
    \/ CheckTampering("r1")
    \/ ResolveDomain("r1")
    \/ CheckAccess("r1")
    \/ Lookup("r1")
    \/ RemoteFails("r1")
    \/ RemoteAnswers("r1")
    \/ Sync("r1")
    \/ LocalWrite("r1")
    \/ LocalWriteFails("r1")
    \/ Finish("r1")
    \/ Tick
    \/ PanelChange(StoreKeys)

SpecStore == StoreInit /\ [][StoreNext]_vars

(***************************************************************************)
(* SpecRace: two handlers serving mailbox requests for the same mailbox at *)
(* the same time, their steps interleaved in every way, within one unit of *)
(* the clock                                                               *)
(***************************************************************************)
RaceKeys == {<<"bob", "a.com">>}

RaceBegin(s) ==
    Begin(s, MailboxEndpoints,
          {LoginToken(users, id, JWT_SECRET, now) : id \in StoreCallers},
          {None}, {"bob"}, {StrongPassword}, {StoreQuota})

RaceNext ==
    \/ \E s \in Slots :
          \/ RaceBegin(s)
          \/ Authenticate(s)
          \/ ValidateBody(s)
          \/ ValidatePassword(s)
          \/ CheckTampering(s)
          \/ ResolveDomain(s)
          \/ CheckAccess(s)
          \/ Lookup(s)
          \/ RemoteFails(s)
          \/ RemoteAnswers(s)
          \/ Sync(s)
          \/ LocalWrite(s)
          \/ LocalWriteFails(s)
          \/ Finish(s)
    \/ PanelChange(RaceKeys)

SpecRace == StoreInit /\ [][RaceNext]_vars

\* C1: can_access_domain is true for every domain for an admin, true for a
\* domain_admin exactly when the domain is the assigned one, and false for
\* every domain for the role user.
C1_CanAccessDomain ==
    fn_out.fn = "can_access_domain" =>
        fn_out.ret = CASE fn_in.user.role = ADMIN -> TRUE
                       [] fn_in.user.role = DOMAIN_ADMIN ->
                              (fn_in.domain = fn_in.user.domain)
                       [] fn_in.user.role = USER -> FALSE

C1_Witness ==
    /\ fn_out.fn = "can_access_domain"
    /\ fn_in.user.role = DOMAIN_ADMIN
    /\ fn_in.user.domain = "a.com"
    /\ fn_in.domain = "b.com"
    /\ fn_out.ret = FALSE

(***************************************************************************)
(* Claims about the endpoints (SpecApi)                                    *)
(***************************************************************************)
DataEvents == {"select_email", "da_call", "db_write"}
HasEvent(log, names) == \E i \in 1..Len(log) : log[i].ev \in names
MailboxRequests == {s \in Slots : req[s].endpoint \in MailboxEndpoints}
Done(s) == req[s].pc = "done"
PasswordChecked(s) == req[s].endpoint \in {"create_email", "change_password"}
PasswordAccepted(pw) ==
    pw.len >= MinPasswordLength /\ pw.upper /\ pw.lower /\ pw.digit

\* A domain_admin caller (authenticated and active) who supplied a domain
\* parameter other than the assigned domain.
Tampering(s) ==
    /\ req[s].current_user.role = DOMAIN_ADMIN
    /\ req[s].domain # None
    /\ req[s].domain # req[s].current_user.domain

GuardsPassedBefore(s, i) ==
    LET log == req[s].log
        u == req[s].current_user
    IN  /\ \E j, k, l \in 1..(i - 1) :
              /\ j < k /\ k < l
              /\ log[j].ev = "tamper" /\ log[k].ev = "effective" /\ log[l].ev = "access"
        /\ ~(u.role = DOMAIN_ADMIN /\ Truthy(req[s].domain) /\ req[s].domain # u.domain)
        /\ \/ u.role = ADMIN
           \/ u.role = DOMAIN_ADMIN /\ u.domain = log[i].domain
        /\ log[i].domain = req[s].eff

C3_GuardsBeforeOperation ==
    \A s \in MailboxRequests :
        LET log == req[s].log
        IN  /\ \A i \in 1..Len(log) :
                  /\ log[i].ev \in DataEvents => GuardsPassedBefore(s, i)
                  /\ log[i].ev = "effective" => i > 1 /\ log[i - 1].ev = "tamper"
                  /\ log[i].ev = "access" => i > 1 /\ log[i - 1].ev = "effective"
            /\ req[s].pc \in {"lookup", "remote", "sync", "write"} =>
                  HasEvent(log, {"access"})

C3_Witness ==
    /\ req["r1"].endpoint = "delete_email"
    /\ req["r1"].current_user.role = DOMAIN_ADMIN
    /\ Done("r1")
    /\ req["r1"].resp.status = 200
    /\ HasEvent(req["r1"].log, {"da_call"})
    /\ HasEvent(req["r1"].log, {"db_write"})

\* C4 as stated: the effective domain of a domain_admin is the assigned
\* domain whatever was requested; that of an admin is the requested domain
\* when one is supplied and the default otherwise; every control-panel call
\* and record access for a domain_admin uses the assigned domain.
Resolved(s) == HasEvent(req[s].log, {"effective"})

C4_AdminAndDataDomains(s) ==
    LET u == req[s].current_user
        log == req[s].log
    IN  /\ Resolved(s) /\ u.role = ADMIN =>
              req[s].eff = IF Truthy(req[s].domain) THEN req[s].domain
                           ELSE DEFAULT_DOMAIN
        /\ u.role = DOMAIN_ADMIN =>
              \A i \in 1..Len(log) :
                  log[i].ev \in DataEvents => log[i].domain = u.domain

Rejected == {"missing", "malformed", "bad signature", "expired"}
InvalidToken == Rejected \ {"missing"}

C6_OneOutcome ==
    \A s \in Slots :
        Done(s) /\ CredentialKind(req[s].cred) \in Rejected =>
            /\ req[s].resp.status = Unauthenticated.status
            /\ req[s].resp.detail = Unauthenticated.detail

\* C6 amended: a malformed, badly signed or expired token gets one and the
\* same outcome, 401 "Could not validate credentials"; a request without a
\* token gets another one, 403 "Not authenticated".
C6_InvalidTokenOneOutcome ==
    \A s \in Slots :
        Done(s) =>
            /\ CredentialKind(req[s].cred) \in InvalidToken =>
                  /\ req[s].resp.status = 401
                  /\ req[s].resp.detail = "Could not validate credentials"
            /\ CredentialKind(req[s].cred) = "missing" =>
                  /\ req[s].resp.status = 403
                  /\ req[s].resp.detail = "Not authenticated"

C6_Witness ==
    /\ Done("r1")
    /\ CredentialKind(req["r1"].cred) = "expired"
    /\ req["r1"].endpoint = "delete_email"
    /\ req["r1"].resp.status = 401

\* C7: every protected endpoint answers a request without a token with 403
\* and a request with an invalid token with 401, and performs no part of the
\* operation: no control-panel call, no change of stored state.
C7_Statuses ==
    \A s \in Slots :
        CredentialKind(req[s].cred) \in Rejected /\ req[s].pc # "idle" =>
            /\ req[s].pc \in {"auth", "done"}
            /\ req[s].log = <<>>
            /\ Done(s) => req[s].resp.status =
                             IF CredentialKind(req[s].cred) = "missing" THEN 403 ELSE 401

C7_NothingDone ==
    (\E s \in Slots : CredentialKind(req[s].cred) \in Rejected /\ req[s].pc # "idle")
        => UNCHANGED <<users, emails, remote>>

C7_NoTokenNoOperation == []C7_Statuses /\ [][C7_NothingDone]_vars

C7_Witness ==
    /\ Done("r1")
    /\ req["r1"].endpoint = "create_email"
    /\ req["r1"].password = StrongPassword
    /\ CredentialKind(req["r1"].cred) = "missing"
    /\ req["r1"].resp.status = 403
    /\ emails = ApiEmailRows

(***************************************************************************)
(* Claims about tokens (SpecToken)                                         *)
(***************************************************************************)
\* A token issued with the configured time to live: without expires_delta,
\* or the way login issues it.
DefaultTtl(i) == i.expires_delta \in {NoDelta, JWT_EXPIRE_MINUTES}
Decoded == fn_out.fn = "decode_access_token"

\* C5: validating a token before its expiry returns the claims it was issued
\* with (user_id, email, role); validating it after its time to live has
\* elapsed fails with Unauthenticated.
C5_TokenRoundTrip ==
    Decoded =>
        /\ fn_out.ret.kind = "ok" =>
              /\ fn_out.ret.value.user_id = fn_in.data.user_id
              /\ fn_out.ret.value.email = fn_in.data.email
              /\ fn_out.ret.value.role = fn_in.data.role
        /\ DefaultTtl(fn_in) =>
              /\ now < fn_in.iat + JWT_EXPIRE_MINUTES => fn_out.ret.kind = "ok"
              /\ now > fn_in.iat + JWT_EXPIRE_MINUTES =>
                    /\ fn_out.ret.kind = "http"
                    /\ fn_out.ret.status = 401

C5_Witness ==
    /\ Decoded
    /\ fn_in.expires_delta = NoDelta
    /\ fn_in.iat > 0
    /\ now > fn_in.iat + JWT_EXPIRE_MINUTES
    /\ fn_out.ret.kind = "http"

(***************************************************************************)
(* Claims about the control-panel client (SpecClient)                      *)
(***************************************************************************)
Failed(response) == response.kind = "transport" \/ ~IsSuccess(response.status)
Attempts == Len(call.responses)
LastResponse == call.responses[Attempts]
Ended == call.pc = "done"

C8_Bounded ==
    /\ Attempts <= 3
    /\ ~Ended => Attempts < 3
    /\ \A i \in 1..(Attempts - 1) : Failed(call.responses[i])
    /\ Ended => /\ Attempts >= 1
                /\ call.outcome.kind \in {"returned", "DirectAdminError"}
                /\ call.outcome.kind = "returned" => ~Failed(LastResponse)

\* C8: every call ends, returning a decoded response or raising
\* DirectAdminError, after at most 3 attempts; another attempt follows only
\* a transport error or a non-2xx status, never a 2xx response.
C8_EndsWithinThreeAttempts == []C8_Bounded /\ <>Ended

C8_Witness ==
    /\ Ended
    /\ Attempts = 3
    /\ call.responses[1].kind = "transport"
    /\ call.responses[2].kind = "http"
    /\ ~Failed(LastResponse)
    /\ call.outcome.kind = "returned"

\* The decoded body of a response says error=1.
SaysError(response) ==
    /\ ~Failed(response)
    /\ \E i \in 1..Len(response.text) : response.text[i] = Pair("error", <<"1">>)
    /\ Cardinality({i \in 1..Len(response.text) :
                        response.text[i][1] = "error" /\ response.text[i][2] # <<>>}) = 1

\* The one non-blank value the body gives for key, decoded, or default when
\* it gives none.
FieldOf(response, key, default) ==
    LET at == {i \in 1..Len(response.text) :
                  response.text[i][1] = key /\ response.text[i][2] # <<>>}
    IN  IF at = {} THEN default
        ELSE LET v == response.text[CHOOSE i \in at : TRUE][2]
             IN  [k \in 1..Len(v) |-> IF v[k] = "+" THEN " " ELSE v[k]]

\* C9: a 2xx response whose decoded body says error=1 makes the call raise
\* DirectAdminError with the body's text as message and its details as
\* diagnostic, on whichever attempt it arrives; it is not retried and nothing
\* is returned.
C9_ApplicationErrorRaised ==
    \A i \in 1..Attempts :
        SaysError(call.responses[i]) =>
            /\ i = Attempts
            /\ Ended
            /\ call.outcome.kind = "DirectAdminError"
            /\ call.outcome.message =
                   FieldOf(call.responses[i], "text", <<"Unknown error">>)
            /\ call.outcome.details = FieldOf(call.responses[i], "details", NoText)

C9_Witness ==
    /\ Attempts = 3
    /\ call.responses[1].status = 500
    /\ call.responses[2].status = 500
    /\ LastResponse = HttpResponse(200, QuotaExceeded)
    /\ Ended
    /\ call.outcome.kind = "DirectAdminError"
    /\ call.outcome.message = <<"quota", " ", "exceeded">>

\* C10: when all 3 attempts fail, the call raises DirectAdminError with the
\* status or detail of the third failure.
C10_LastFailureRaised ==
    (Attempts = 3 /\ \A i \in 1..3 : Failed(call.responses[i])) =>
        /\ Ended
        /\ call.outcome.kind = "DirectAdminError"
        /\ LastResponse.kind = "http" =>
              /\ call.outcome.message = <<"HTTP ", StatusText(LastResponse.status)>>
              /\ call.outcome.details = LastResponse.text
        /\ LastResponse.kind = "transport" =>
              /\ call.outcome.message = <<"Network error">>
              /\ call.outcome.details = LastResponse.detail

C10_Witness ==
    /\ Attempts = 3
    /\ call.responses[1] = HttpResponse(500, <<>>)
    /\ call.responses[2].kind = "transport"
    /\ LastResponse.kind = "http"
    /\ LastResponse.status = 404
    /\ call.outcome.kind = "DirectAdminError"
    /\ call.outcome.message = <<"HTTP ", "404">>
\* The usernames a response body lists: the non-blank values it gives under
\* "list[]", or under "list" when it gives none there, decoded, in order.
RECURSIVE Listed(_, _)
Listed(text, key) ==
    IF text = <<>> THEN <<>>
    ELSE IF Head(text)[1] = key /\ Head(text)[2] # <<>>
    THEN <<[k \in 1..Len(Head(text)[2]) |->
               IF Head(text)[2][k] = "+" THEN " " ELSE Head(text)[2][k]]>>
         \o Listed(Tail(text), key)
    ELSE Listed(Tail(text), key)

Usernames(text) ==
    IF Listed(text, "list[]") # <<>> THEN Listed(text, "list[]") ELSE Listed(text, "list")

\* C11: list_emails returns one entry per username in the remote response, in
\* the order listed, each in the shape {"username": name}, whether the
\* response lists no username, one (which the decoder collapses to a scalar)
\* or several.
C11_ListNormalized ==
    call.value.set =>
        /\ Len(call.value.items) = Len(Usernames(LastResponse.text))
        /\ \A i \in 1..Len(call.value.items) :
              call.value.items[i] = [username |-> Usernames(LastResponse.text)[i]]

C11_Witness ==
    /\ call.value.set
    /\ Attempts = 2
    /\ LastResponse = HttpResponse(200, <<Pair("list[]", <<"alice">>)>>)
    /\ call.value.items = <<[username |-> <<"alice">>]>>
(***************************************************************************)
(* Claims about the local mailbox records (SpecStore)                      *)
(***************************************************************************)
\* The step in which the handler of slot s commits and answers with success.
Commits(s, endpoint) ==
    /\ req[s].pc = "write"
    /\ req[s].endpoint = endpoint
    /\ req'[s].pc = "done"
    /\ req'[s].resp.status \in {200, 201}

\* A request of the given kind that has been answered with success.
Succeeded(s, endpoint) ==
    /\ Done(s)
    /\ req[s].endpoint = endpoint
    /\ req[s].resp.status \in {200, 201}

SamePassAgain(s) ==
    /\ journal.last.endpoint = "list_emails"
    /\ journal.last.domain = req[s].eff
    /\ journal.last.names = req[s].da_emails

\* C12: a reconciliation pass for a domain that follows a pass for that domain
\* with the same remote list, with no other commit in between, leaves the
\* table as it is: no row inserted, no field of any row changed.
C12_SecondPassChangesNothing ==
    [][\A s \in Slots :
          Commits(s, "list_emails") /\ SamePassAgain(s) => emails' = emails]_vars

C12_Witness ==
    /\ Succeeded("r1", "list_emails")
    /\ journal.last = journal.prev
    /\ journal.last.names = {"amy", "bob"}
    /\ req["r1"].da_emails = {"amy", "bob"}
    /\ \E e \in emails : e.username = "amy" /\ e.updated_at < now
    /\ req["r1"].staged.at = now

\* The rows a pass for the domain of request s, with the list it fetched,
\* finds soft-deleted.
FoundSoftDeleted(s) ==
    {e \in emails : /\ e.domain = req[s].eff
                    /\ e.username \in req[s].da_emails
                    /\ e.deleted_at # NoTime}

\* C13: a pass that finds a remote username whose row for (username, domain)
\* is soft-deleted clears the row's delete timestamp and sets its update
\* timestamp to the time of the pass; it inserts no row for that mailbox and
\* leaves every other field of the row, creator and quota among them, as it was.
C13_Resurrection ==
    [][\A s \in Slots :
          Commits(s, "list_emails") =>
              \A e \in FoundSoftDeleted(s) :
                  LET after == RowsFor(emails', e.username, e.domain)
                  IN  /\ Cardinality(after) = 1
                      /\ \A x \in after :
                            /\ x.id = e.id
                            /\ x.deleted_at = NoTime
                            /\ x.updated_at = req[s].staged.at
                            /\ x.updated_at >= e.deleted_at
                            /\ x.created_by_user_id = e.created_by_user_id
                            /\ x.quota_mb = e.quota_mb
                            /\ x.created_at = e.created_at]_vars

C13_Witness ==
    /\ Succeeded("r1", "list_emails")
    /\ req["r1"].staged.revive # {}
    /\ req["r1"].staged.insert = {"amy"}
    /\ \E e \in emails :
          /\ e.id \in req["r1"].staged.revive
          /\ e.username = "bob"
          /\ e.domain = "a.com"
          /\ e.deleted_at = NoTime
          /\ e.created_by_user_id = AdminId
          /\ e.quota_mb = StoreQuota
          /\ e.created_at < e.updated_at

\* C14: when a pass for domain d has completed with success, every username
\* of the list it fetched has exactly one row for (username, d) and that row
\* is active, a row the pass inserted has the quota 1000, and the response is
\* exactly the set of the rows of d that are not soft-deleted.
C14_PassResult ==
    \A s \in Slots :
        Succeeded(s, "list_emails") =>
            /\ \A u \in req[s].da_emails :
                  /\ Cardinality(RowsFor(emails, u, req[s].eff)) = 1
                  /\ \A e \in RowsFor(emails, u, req[s].eff) :
                        /\ e.deleted_at = NoTime
                        /\ u \in req[s].staged.insert => e.quota_mb = 1000
            /\ req[s].resp.arg =
                   {e \in emails : e.domain = req[s].eff /\ e.deleted_at = NoTime}

C14_Witness ==
    /\ Succeeded("r1", "list_emails")
    /\ req["r1"].staged.insert = {"amy", "bob"}
    /\ Cardinality(req["r1"].resp.arg) = 2
    /\ HasEvent(req["r1"].log, {"db_write"})

\* C15: a pass soft-deletes and removes no row: every row that was active
\* before the commit of a pass is there unchanged after it, also when the
\* remote list does not name its mailbox, and is in the response when it is
\* of the domain of the pass; every row that existed still exists; and a row
\* goes from active to soft-deleted only in the commit of a delete request.
Absent(s) ==
    {e \in emails : /\ e.domain = req[s].eff
                    /\ e.username \notin req[s].da_emails
                    /\ e.deleted_at = NoTime}

SoftDeletedInStep ==
    {e \in emails : /\ e.deleted_at = NoTime
                    /\ \E x \in emails' : x.id = e.id /\ x.deleted_at # NoTime}

C15_PassDeletesNothing ==
    [][/\ \A s \in Slots :
             Commits(s, "list_emails") =>
                 /\ \A e \in emails :
                       /\ e.deleted_at = NoTime => e \in emails'
                       /\ \E x \in emails' :
                             x.id = e.id /\ x.username = e.username /\ x.domain = e.domain
                 /\ \A e \in Absent(s) : e \in req'[s].resp.arg
       /\ SoftDeletedInStep # {} => \E s \in Slots : Commits(s, "delete_email")]_vars

C15_Witness ==
    /\ Succeeded("r1", "list_emails")
    /\ req["r1"].da_emails = {"amy"}
    /\ <<"bob", "a.com">> \notin remote
    /\ \E e \in req["r1"].resp.arg :
          e.username = "bob" /\ e.created_at < req["r1"].staged.at
    /\ \E e \in emails : e.deleted_at # NoTime

Mutating == {"create_email", "delete_email", "change_password"}
RemoteErrorDetail == "DirectAdmin error: {e.message}"

C16_CallBeforeWrite ==
    \A s \in Slots :
        req[s].endpoint \in Mutating =>
            /\ \A i \in 1..Len(req[s].log) :
                  req[s].log[i].ev = "db_write" =>
                      \E j \in 1..(i - 1) : req[s].log[j].ev = "da_call"
            /\ Done(s) /\ req[s].resp.detail = RemoteErrorDetail =>
                  /\ req[s].resp.status = 500
                  /\ ~HasEvent(req[s].log, {"db_write"})

C16_WriteOnlyAfterCall ==
    \A s \in Slots :
        req[s].endpoint \in Mutating /\ req[s].pc \notin {"idle", "done"} =>
            /\ emails' # emails =>
                  /\ req[s].pc = "write"
                  /\ HasEvent(req[s].log, {"da_call"})
                  /\ HasEvent(req'[s].log, {"db_write"})
            /\ req'[s].resp.detail = RemoteErrorDetail => emails' = emails

\* C16: in create, delete and change-password the control-panel call comes
\* before every local write, and a request whose control-panel call raised
\* DirectAdminError has written nothing: the rows are changed only by the
\* write step of the request, which such a request does not reach.
C16_RemoteFirst == []C16_CallBeforeWrite /\ [][C16_WriteOnlyAfterCall]_vars

C16_Witness ==
    /\ Done("r1")
    /\ req["r1"].endpoint = "delete_email"
    /\ req["r1"].resp.detail = RemoteErrorDetail
    /\ HasEvent(req["r1"].log, {"da_call"})
    /\ \E e \in emails :
          e.id = req["r1"].found /\ e.deleted_at = NoTime /\ e.updated_at = e.created_at

\* C17: no step removes a row, so the (username, domain) keys that have a row
\* only grow; the commit of a delete changes, of the row it deletes, only the
\* delete timestamp (which it sets) and the update timestamp, and changes no
\* other row.
C17_SoftDeleteOnly ==
    [][/\ \A e \in emails :
             \E x \in emails' :
                 x.id = e.id /\ x.username = e.username /\ x.domain = e.domain
       /\ \A s \in Slots :
             Commits(s, "delete_email") =>
                 /\ Cardinality(emails') = Cardinality(emails)
                 /\ \A e \in emails :
                       IF e.id = req[s].found
                       THEN \E x \in emails' :
                               /\ x = [e EXCEPT !.deleted_at = x.deleted_at,
                                                !.updated_at = x.updated_at]
                               /\ x.deleted_at # NoTime
                       ELSE e \in emails']_vars

C17_Witness ==
    /\ Succeeded("r1", "delete_email")
    /\ \E e \in emails :
          /\ e.id = req["r1"].found
          /\ e.deleted_at = now
          /\ e.created_at < now
          /\ e.quota_mb = StoreQuota
          /\ e.created_by_user_id = AdminId
    /\ \E e \in emails : e.username = "amy" /\ e.deleted_at = NoTime

\* C18: after an admin has created mailbox (u, d) there is a row for (u, d)
\* without a delete timestamp; the delete that follows removes the mailbox at
\* the control panel and sets the delete timestamp of the row, so that the
\* active rows of d no longer hold it; and a further delete of (u, d) is
\* answered NotFound.
LastCommitIs(endpoint, u, d) ==
    /\ journal.last.endpoint = endpoint
    /\ journal.last.username = u
    /\ journal.last.domain = d

C18_RowsAfterCreateAndDelete ==
    /\ journal.last.endpoint = "create_email" =>
          \E e \in emails : /\ e.username = journal.last.username
                            /\ e.domain = journal.last.domain
                            /\ e.deleted_at = NoTime
    /\ journal.last.endpoint = "delete_email" =>
          /\ \E e \in emails : /\ e.username = journal.last.username
                               /\ e.domain = journal.last.domain
          /\ \A e \in emails :
                e.username = journal.last.username /\ e.domain = journal.last.domain
                    => e.deleted_at # NoTime

C18_DeleteSteps ==
    \A s \in Slots :
        req[s].endpoint = "delete_email" =>
            /\ req[s].pc = "remote" /\ req'[s].pc = "write" =>
                  <<req[s].username, req[s].eff>> \notin remote'
            /\ ( /\ req[s].pc = "lookup"
                 /\ req'[s].pc # "lookup"
                 /\ LastCommitIs("delete_email", req[s].username, req[s].eff) )
               => /\ req'[s].pc = "done"
                  /\ req'[s].resp.status = 404

C18_CreateDeleteDelete == []C18_RowsAfterCreateAndDelete /\ [][C18_DeleteSteps]_vars

C18_Witness ==
    /\ Done("r1")
    /\ req["r1"].endpoint = "delete_email"
    /\ req["r1"].resp.status = 404
    /\ LastCommitIs("delete_email", "bob", "a.com")
    /\ journal.prev.endpoint = "create_email"
    /\ journal.prev.username = "bob"
    /\ journal.prev.domain = "a.com"
    /\ <<"bob", "a.com">> \notin remote
    /\ \E e \in emails : e.username = "bob" /\ e.domain = "a.com" /\ e.quota_mb = StoreQuota

(***************************************************************************)
(* Claims about concurrent requests (SpecRace)                             *)
(***************************************************************************)
\* C19: whatever list, create, delete and change-password requests are
\* served, one after another or interleaved, no two rows that are not
\* soft-deleted have the same (username, domain).
C19_UniqueAmongActive ==
    \A e1, e2 \in emails :
        ( /\ e1.deleted_at = NoTime
          /\ e2.deleted_at = NoTime
          /\ e1.username = e2.username
          /\ e1.domain = e2.domain ) => e1 = e2

C19_Witness ==
    /\ Done("r1")
    /\ req["r1"].endpoint = "list_emails"
    /\ req["r1"].staged.insert = {"bob"}
    /\ req["r1"].resp.status = 500
    /\ req["r1"].resp.arg = "IntegrityError: uq_username_domain"
    /\ Succeeded("r2", "create_email")
    /\ Cardinality({e \in emails : e.username = "bob" /\ e.domain = "a.com"}) = 1

\* Two requests to create the same mailbox.
SameCreate(s1, s2) ==
    /\ s1 # s2
    /\ req[s1].endpoint = "create_email"
    /\ req[s2].endpoint = "create_email"
    /\ req[s1].username = req[s2].username
    /\ req[s1].eff = req[s2].eff

\* C20: of two concurrent create requests for the same (username, domain),
\* which can both be past the existence check with their control-panel calls
\* made, at most one ends with its row written: the other one's insert is
\* refused by the unique constraint, and there is one row for the mailbox.
C20_OneInsert ==
    \A s1, s2 \in Slots :
        ( /\ SameCreate(s1, s2)
          /\ HasEvent(req[s1].log, {"da_call"})
          /\ HasEvent(req[s2].log, {"da_call"}) )
        => /\ ~(req[s1].resp.status = 201 /\ req[s2].resp.status = 201)
           /\ Cardinality({e \in emails : /\ e.username = req[s1].username
                                          /\ e.domain = req[s1].eff}) <= 1
           /\ ( /\ req[s1].resp.status = 201
                /\ Done(s2)
                /\ HasEvent(req[s2].log, {"db_write"}) )
              => req[s2].resp.status = 500

C20_Witness ==
    /\ SameCreate("r1", "r2")
    /\ \A s \in Slots : /\ HasEvent(req[s].log, {"select_email"})
                        /\ HasEvent(req[s].log, {"da_call"})
    /\ Succeeded("r1", "create_email")
    /\ Done("r2")
    /\ req["r2"].resp.status = 500
    /\ req["r2"].resp.arg = "IntegrityError: uq_username_domain"
    /\ Cardinality({e \in emails : e.username = "bob" /\ e.domain = "a.com"}) = 1

(***************************************************************************)
(* SpecIdentity: two handlers serving logins and registrations at the same *)
(* time, their steps interleaved in every way                              *)
(***************************************************************************)
\* Passwords with their text (TestPass123!, WrongPass123!, testpass123!, Pass12!)
TestPass == [head |-> "TestPass123!", tail |-> ""] @@ StrongPassword
WrongPass == [head |-> "WrongPass123!", tail |-> ""] @@ StrongPassword
WeakPass == [head |-> "testpass123!", tail |-> ""] @@ WeakPassword
ShortPass == [head |-> "Pass12!", tail |-> ""] @@ ShortPassword

\* An admin, a domain_admin and a deactivated domain_admin, each registered
\* with the password TestPass123!.
IdentityUsers ==
    <<Identity("root@a.com", hash_password(TestPass, "salt1"), ADMIN, None, FALSE,
               TRUE, 1),
      Identity("da@a.com", hash_password(TestPass, "salt2"), DOMAIN_ADMIN, "a.com",
               FALSE, TRUE, 1),
      Identity("gone@b.com", hash_password(TestPass, "salt3"), DOMAIN_ADMIN, "b.com",
               FALSE, FALSE, 2)>>

LoginArgs(emailSet) == {[NoArgs EXCEPT !.email = e] : e \in emailSet}
RegisterArgs(emailSet) ==
    {[NoArgs EXCEPT !.email = e, !.role = DOMAIN_ADMIN, !.recovery = rec] :
        e \in emailSet, rec \in BOOLEAN}

IdentityInit ==
    /\ PureIdle
    /\ now = ApiNow
    /\ JWT_SECRET = Secret
    /\ DEFAULT_DOMAIN = "a.com"
    /\ users = IdentityUsers
    /\ reset_tokens = {}
    /\ emails = {}
    /\ journal = NoJournal
    /\ remote = {}
    /\ req = [s \in Slots |-> IdleRequest]
    /\ issued = {}
    /\ call = IdleCall

LoginBegin(s) ==
    BeginIdentity(s, {"login"}, {NoCredentials}, {None}, {TestPass, WrongPass},
                  LoginArgs({"root@a.com", "gone@b.com", "new@a.com"}))

RegisterBegin(s) ==
    BeginIdentity(s, {"register"}, {NoCredentials}, {"a.com"},
                  {TestPass, WeakPass, ShortPass},
                  RegisterArgs({"root@a.com", "new@a.com"}))

IdentityNext ==
    \E s \in Slots :
        \/ LoginBegin(s)
        \/ RegisterBegin(s)
        \/ ValidateBody(s)
        \/ ValidatePassword(s)
        \/ Login(s)
        \/ SelectUser(s)
        \/ InsertUser(s, {"salt1"})
        \/ Finish(s)

SpecIdentity == IdentityInit /\ [][IdentityNext]_vars

(***************************************************************************)
(* SpecAdmin: one request after another: logins, the admin endpoints,      *)
(* /auth/me and the mailbox list, made with the tokens the logins issued   *)
(***************************************************************************)
MaxSessions == 2
MissingUserId == Len(IdentityUsers) + 1
DaId == CHOOSE id \in DOMAIN IdentityUsers : IdentityUsers[id].email = "da@a.com"

\* datetime.utcnow() advances.
Clock(limit) ==
    /\ now < limit
    /\ now' = now + 1
    /\ UNCHANGED <<pureVars, issued, call, cfgVars, apiVars>>

IssuedTokens == {i.token : i \in issued}

SessionBegin ==
    /\ Cardinality(issued) < MaxSessions
    /\ BeginIdentity("r1", {"login"}, {NoCredentials}, {None}, {TestPass},
                     LoginArgs({"root@a.com", "da@a.com"}))

ReadBegin ==
    BeginIdentity("r1", {"me", "list_users"}, IssuedTokens, {None}, {None}, {NoArgs})

MailBegin ==
    Begin("r1", {"list_emails"}, IssuedTokens, {None, "a.com"}, {None}, {None}, {0})

RoleBegin ==
    BeginIdentity("r1", {"update_user_role"}, IssuedTokens, {"a.com", "b.com"}, {None},
                  {[NoArgs EXCEPT !.user_id = id, !.role = role] :
                      id \in {DaId, MissingUserId}, role \in UserRole})

ActiveBegin ==
    BeginIdentity("r1", {"deactivate_user"}, IssuedTokens, {None}, {None},
                  {[NoArgs EXCEPT !.user_id = id, !.activate = a] :
                      id \in {DaId, MissingUserId}, a \in BOOLEAN})

AdminNext ==
    \/ SessionBegin
    \/ ReadBegin
    \/ MailBegin
    \/ RoleBegin
    \/ ActiveBegin
    \/ Authenticate("r1")
    \/ ValidateBody("r1")
    \/ Login("r1")
    \/ RequireAdmin("r1")
    \/ SelectUsers("r1")
    \/ WriteUser("r1")
    \/ Respond("r1")
    \/ CheckTampering("r1")
    \/ ResolveDomain("r1")
    \/ CheckAccess("r1")
    \/ RemoteFails("r1")
    \/ RemoteAnswers("r1")
    \/ Sync("r1")
    \/ LocalWrite("r1")
    \/ LocalWriteFails("r1")
    \/ Finish("r1")

SpecAdmin == IdentityInit /\ [][AdminNext]_vars

(***************************************************************************)
(* SpecActive: the same without changes of role, while the clock runs past *)
(* the life of a token                                                     *)
(***************************************************************************)
ActiveMaxNow == ApiNow + JWT_EXPIRE_MINUTES + 1

ActiveNext ==
    \/ SessionBegin
    \/ ReadBegin
    \/ MailBegin
    \/ ActiveBegin
    \/ Authenticate("r1")
    \/ ValidateBody("r1")
    \/ Login("r1")
    \/ RequireAdmin("r1")
    \/ SelectUsers("r1")
    \/ WriteUser("r1")
    \/ Respond("r1")
    \/ CheckTampering("r1")
    \/ ResolveDomain("r1")
    \/ CheckAccess("r1")
    \/ RemoteFails("r1")
    \/ RemoteAnswers("r1")
    \/ Sync("r1")
    \/ LocalWrite("r1")
    \/ LocalWriteFails("r1")
    \/ Finish("r1")
    \/ Clock(ActiveMaxNow)

SpecActive == IdentityInit /\ [][ActiveNext]_vars

(***************************************************************************)
(* Claims about login and registration (SpecIdentity)                      *)
(***************************************************************************)
\* The digest is the one bcrypt gives for this password and the digest's salt.
Matches(password, digest) == digest.checksum = <<digest.salt, password.head>>

\* The identities a login request names and proves: those with its email,
\* and among them those whose digest its password matches.
Named(s) == {id \in DOMAIN users : users[id].email = req[s].args.email}
Proven(s) == {id \in Named(s) : Matches(req[s].password, users[id].hashed_password)}

LoginRefusal == HTTPException(401, "Incorrect email or password")

C24_LoginStep ==
    \A s \in Slots :
        req[s].pc = "login" /\ req'[s].pc # "login" =>
            LET resp == req'[s].resp
                granted == resp.kind = "response" /\ resp.status = 200
            IN  /\ req'[s].pc = "done"
                /\ granted <=> \E id \in Proven(s) : users[id].is_active
                /\ granted =>
                      /\ resp.arg.form = "jwt"
                      /\ resp.arg.user_id \in Proven(s)
                      /\ resp.arg.key = JWT_SECRET
                /\ Proven(s) = {} => resp = LoginRefusal
                /\ (\E id \in Proven(s) : ~users[id].is_active) =>
                      /\ resp.kind = "http" /\ resp.status = 400
                      /\ issued' = issued

\* C24: login answers with a token exactly when an identity with the email
\* exists, the password verifies against its digest and the identity is
\* active; an unknown email and a wrong password get the same 401 with the
\* same message; the right password of an inactive identity gets 400 and no
\* token.
C24_LoginOutcome == [][C24_LoginStep]_vars

\* Both slots hold a refused login: one for an email nobody has, one for a
\* wrong password of an identity, and the two answers are the same.
C24_Witness ==
    /\ Done("r1") /\ req["r1"].endpoint = "login"
    /\ req["r1"].args.email = "new@a.com" /\ UsersByEmail(users, "new@a.com") = {}
    /\ Done("r2") /\ req["r2"].endpoint = "login"
    /\ req["r2"].args.email = "root@a.com" /\ req["r2"].password = WrongPass
    /\ req["r1"].resp = req["r2"].resp
    /\ req["r1"].resp.status = 401

UniqueEmails ==
    \A i, j \in DOMAIN users : users[i].email = users[j].email => i = j

Registering(s) == req[s].endpoint = "register" /\ req[s].pc \notin {"idle", "done"}

RowsKept == Len(users') >= Len(users) /\ \A id \in DOMAIN users : users'[id] = users[id]

C26_RegisterStep ==
    \A s \in Slots :
        Registering(s) /\ req'[s].pc # req[s].pc =>
            LET taken == UsersByEmail(users, req[s].args.email) # {}
                resp == req'[s].resp
            IN  /\ (req[s].pc = "select_user" /\ taken) =>
                      /\ req'[s].pc = "done"
                      /\ resp.status = 409
                      /\ resp.arg = req[s].args.email
                /\ (req[s].pc = "insert_user" /\ taken) =>
                      /\ req'[s].pc = "done"
                      /\ resp.status = 500
                /\ (req[s].pc \in {"body", "validate_password"} /\ req'[s].pc = "done") =>
                      resp.status \in {400, 422}
                /\ (taken \/ (req'[s].pc = "done" /\ resp.status # 201)) =>
                      users' = users

ResetMaxNow == ApiNow + RESET_TOKEN_EXPIRY_HOURS + 1
NoSuchToken == "no such token"

RecoveryBegin ==
    BeginIdentity("r1", {"register"}, {NoCredentials}, {"a.com"}, {TestPass},
                  RegisterArgs({"new@a.com", "other@a.com"}))

ResetBegin ==
    BeginIdentity("r1", {"reset_password"}, {NoCredentials}, {None},
                  {WrongPass, WeakPass},
                  {[NoArgs EXCEPT !.token = k, !.confirm = c] :
                      k \in {ResetTokenValues[1], ResetTokenValues[2], NoSuchToken},
                      c \in {WrongPass, WeakPass}})

ResetNext ==
    \/ RecoveryBegin
    \/ ResetBegin
    \/ ValidateBody("r1")
    \/ ValidatePassword("r1")
    \/ SelectUser("r1")
    \/ InsertUser("r1", {"salt1"})
    \/ ResetCheck("r1")
    \/ ResetWrite("r1", {"salt2", "salt3"})
    \/ Finish("r1")
    \/ Clock(ResetMaxNow)

SpecReset == IdentityInit /\ [][ResetNext]_vars

(***************************************************************************)
(* Claims about the reset token (SpecReset)                                *)
(***************************************************************************)
Submitted(s) == {k \in reset_tokens : k.token = req[s].args.token}

\* The submission of slot s changes a password in this step.
ChangesPassword(s) ==
    /\ req[s].endpoint = "reset_password"
    /\ req[s].pc = "reset_write"
    /\ req'[s].pc = "done"

C28_CheckStep ==
    \A s \in Slots :
        req[s].endpoint = "reset_password" /\ req[s].pc = "reset_token"
            /\ req'[s].pc # "reset_token" =>
            /\ UNCHANGED <<users, reset_tokens>>
            /\ req'[s].pc = "reset_write" <=>
                  /\ \E k \in Submitted(s) : ~k.used /\ now <= k.expires_at
                  /\ req[s].password = req[s].args.confirm
                  /\ req[s].password.len >= 8 /\ req[s].password.upper
                  /\ req[s].password.lower /\ req[s].password.digit
            /\ req'[s].pc # "reset_write" =>
                  req'[s].pc = "done" /\ req'[s].resp.status # 302

C28_WriteStep ==
    \A s \in Slots :
        ChangesPassword(s) =>
            /\ req'[s].resp.status = 302
            /\ \E k \in Submitted(s) :
                  /\ ~k.used
                  /\ [k EXCEPT !.used = TRUE] \in reset_tokens'
                  /\ Matches(req[s].password, users'[k.user_id].hashed_password)
                  /\ \A id \in DOMAIN users :
                        id # k.user_id => users'[id] = users[id]

C28_TokenRows ==
    /\ \A k \in reset_tokens :
          \/ k \in reset_tokens'
          \/ /\ ~k.used
             /\ [k EXCEPT !.used = TRUE] \in reset_tokens'
             /\ \E s \in Slots : ChangesPassword(s) /\ req[s].args.token = k.token
    /\ \A id \in DOMAIN users :
          users'[id].hashed_password # users[id].hashed_password =>
              \E s \in Slots : ChangesPassword(s)

\* C28: a submission of the reset form changes the identity's password only
\* if its token exists, is unused and has not expired, the two passwords are
\* equal and the password is strong; the change marks the token used, and a
\* used token is never unused again, so at most one submission per token
\* changes the password; a refused submission leaves the token and the
\* password as they were.
C28_ConsumedOnce == [][C28_CheckStep /\ C28_WriteStep /\ C28_TokenRows]_vars

\* A token that has changed its identity's password is submitted again,
\* before it expires, and is refused.
C28_Witness ==
    /\ Done("r1")
    /\ req["r1"].endpoint = "reset_password"
    /\ req["r1"].password = WrongPass /\ req["r1"].args.confirm = WrongPass
    /\ req["r1"].resp.status = 200
    /\ \E k \in Submitted("r1") :
          /\ k.used
          /\ now <= k.expires_at
          /\ Matches(WrongPass, users[k.user_id].hashed_password)

(***************************************************************************)
(* Claims about the admin endpoints and the stored identity (SpecAdmin,    *)
(* SpecActive)                                                             *)
(***************************************************************************)
\* The role, the domain and the active flag of every identity.
Standing(table) ==
    [id \in DOMAIN table |->
        <<table[id].role, table[id].domain, table[id].is_active>>]

C25_GuardStep ==
    \A s \in Slots :
        ( /\ req[s].endpoint \in AdminEndpoints
          /\ req[s].pc = "require_admin"
          /\ req'[s].pc # "require_admin" )
        => IF req[s].current_user.role = ADMIN
           THEN req'[s].pc # "done"
           ELSE /\ req'[s].pc = "done"
                /\ req'[s].resp.status = 403
                /\ Standing(users') = Standing(users)

C25_OnlyAdmin ==
    /\ Standing(users') # Standing(users) =>
          \E s \in Slots : /\ req[s].endpoint \in AdminEndpoints \ {"list_users"}
                           /\ req[s].current_user.role = ADMIN
    /\ \A s \in Slots :
          ( /\ req[s].endpoint \in AdminEndpoints
            /\ req'[s].pc = "done"
            /\ req'[s].resp.kind = "response" )
          => req[s].current_user.role = ADMIN

\* C25: listing the identities, changing an identity's role and domain, and
\* deactivating or reactivating one are carried out only for a caller whose
\* role is admin; a caller of role domain_admin or user is answered 403 and
\* the role, domain and active flag of every identity stay as they were.
C25_AdminOnly == [][C25_GuardStep /\ C25_OnlyAdmin]_vars

\* A domain_admin asked to be made admin and was refused.
C25_Witness ==
    /\ Done("r1")
    /\ req["r1"].endpoint = "update_user_role"
    /\ req["r1"].args.user_id = req["r1"].current_user.id
    /\ req["r1"].args.role = ADMIN
    /\ req["r1"].current_user.role = DOMAIN_ADMIN
    /\ req["r1"].resp.status = 403
    /\ users[req["r1"].current_user.id].role = DOMAIN_ADMIN

\* A token of this process that has not expired, for an identity that exists.
LiveToken(c) ==
    /\ c.form = "jwt"
    /\ c.key = JWT_SECRET
    /\ c.exp >= now
    /\ c.user_id \in DOMAIN users

IssuedAt(c) == c.exp - JWT_EXPIRE_MINUTES

C29_AuthStep ==
    \A s \in Slots :
        ( /\ req[s].pc = "auth"
          /\ req'[s].pc # "auth"
          /\ LiveToken(req[s].cred) )
        => IF users[req[s].cred.user_id].is_active
           THEN req'[s].pc = "body"
           ELSE /\ req'[s].pc = "done"
                /\ req'[s].resp.status = 400
                /\ req'[s].log = <<>>
                /\ UNCHANGED <<users, reset_tokens, emails, remote>>

C29_Refused ==
    \A s \in Slots :
        (Done(s) /\ req[s].cred.form = "jwt" /\ req[s].resp.status = 400
            /\ req[s].resp.detail = "Inactive user")
        => req[s].log = <<>> /\ req[s].current_user.id = NoUserId

\* C29: a request that carries an unexpired token of an identity that is
\* inactive when the request is authenticated is answered 400, on every
\* protected endpoint, before the handler does anything; once the identity
\* is active again a request with the same token, if it has not expired, is
\* let through to its handler.
C29_InactiveRejected == []C29_Refused /\ [][C29_AuthStep]_vars

\* The last two commits deactivated and then reactivated the domain_admin,
\* and /auth/me has answered a request that carries a token issued to them
\* before that.
C29_Witness ==
    /\ Done("r1")
    /\ req["r1"].endpoint = "me"
    /\ req["r1"].resp.status = 200
    /\ req["r1"].cred.user_id = DaId
    /\ journal.prev = Commit("deactivate_user", "a.com", "da@a.com", {})
    /\ journal.last = Commit("deactivate_user", "a.com", "da@a.com", {"is_active"})
    /\ IssuedAt(req["r1"].cred) < users[DaId].updated_at

C30_AuthStep ==
    \A s \in Slots :
        req[s].pc = "auth" /\ req'[s].pc = "body" =>
            LET stored == users[req[s].cred.user_id]
            IN  /\ req'[s].current_user.role = stored.role
                /\ req'[s].current_user.domain = stored.domain

\* What the guards of a request that was authenticated decided, stated on
\* the identity the request was authenticated as.
C30_Decisions ==
    \A s \in Slots :
        Done(s) /\ req[s].current_user.id # NoUserId =>
            LET user == req[s].current_user
                refused == req[s].resp.kind = "http" /\ req[s].resp.status = 403
            IN  /\ req[s].endpoint \in AdminEndpoints =>
                      (refused <=> user.role # ADMIN)
                /\ req[s].endpoint = "list_emails" =>
                      /\ user.role = USER => refused
                      /\ user.role = ADMIN => ~refused
                      /\ (user.role = DOMAIN_ADMIN /\ req[s].domain = "a.com") =>
                            (refused <=> user.domain # "a.com")

\* C30: a request is authorized by the role and domain stored for the
\* token's subject when the request is authenticated, whatever role the
\* token claims: after an admin has changed an identity's role or domain, a
\* request with a token issued to that identity before is decided by the new
\* role and domain.
C30_StoredRole == []C30_Decisions /\ [][C30_AuthStep]_vars

\* The list of identities was given to a caller whose token says
\* domain_admin and whose stored role is admin.
C30_Witness ==
    /\ Done("r1")
    /\ req["r1"].endpoint = "list_users"
    /\ req["r1"].resp.status = 200
    /\ req["r1"].cred.role = DOMAIN_ADMIN
    /\ req["r1"].current_user.role = ADMIN
    /\ users[req["r1"].cred.user_id].role = ADMIN

(***************************************************************************)
(* SpecPassword: validate_password applied to every kind of password       *)
(***************************************************************************)
MaxPasswordLength == 12

CharClasses(p) ==
    (IF p.upper THEN 1 ELSE 0) + (IF p.lower THEN 1 ELSE 0) + (IF p.digit THEN 1 ELSE 0)

\* A password is known by its length and by which of [A-Z], [a-z] and \d
\* match it; a string has at least one character for each class it contains.
Passwords ==
    {p \in [len : 0..MaxPasswordLength, upper : BOOLEAN, lower : BOOLEAN,
            digit : BOOLEAN] : CharClasses(p) <= p.len}

PasswordInit ==
    /\ fn_in \in Passwords
    /\ fn_out = Idle
    /\ ApiIdle

CallValidatePassword ==
    /\ fn_out = Idle
    /\ fn_out' = [fn |-> "validate_password", ret |-> validate_password(fn_in)]
    /\ UNCHANGED <<fn_in, issued, call, now, cfgVars, dbVars, remote, req>>

PasswordNext == CallValidatePassword

SpecPassword == PasswordInit /\ [][PasswordNext]_vars

(***************************************************************************)
(* SpecHash: hash_password called twice on a password, verify_password on  *)
(* the first digest with the same password and with another one            *)
(***************************************************************************)
Text(head, tail) == [head |-> head, tail |-> tail]
Long72 == "72 bytes"
Plaintexts ==
    {Text("TestPass123!", ""), Text("WrongPass123!", ""), Text(Long72, "")}
    \cup {Text(Long72, tail) : tail \in {"x", "y"}}
AtMost72Bytes(text) == text.tail = ""
Salts == {"salt1", "salt2", "salt3"}
MaxHashes == 2

HashInit ==
    /\ fn_in \in [p : Plaintexts, q : Plaintexts]
    /\ fn_out = [fn |-> "hash_password", digests |-> <<>>, verified |-> <<>>]
    /\ ApiIdle

DrawnSalts == {fn_out.digests[i].salt : i \in 1..Len(fn_out.digests)}

\* 16 random bytes: a salt that no earlier call has drawn.
CallHashPassword ==
    /\ Len(fn_out.digests) < MaxHashes
    /\ \E salt \in Salts \ DrawnSalts :
          fn_out' = [fn_out EXCEPT
                        !.digests = Append(@, hash_password(fn_in.p, salt))]
    /\ UNCHANGED <<fn_in, issued, call, now, cfgVars, dbVars, remote, req>>

CallVerifyPassword ==
    /\ fn_out.digests # <<>>
    /\ fn_out.verified = <<>>
    /\ fn_out' = [fn_out EXCEPT
                    !.verified =
                        <<verify_password(fn_in.p, fn_out.digests[1]),
                          verify_password(fn_in.q, fn_out.digests[1])>>]
    /\ UNCHANGED <<fn_in, issued, call, now, cfgVars, dbVars, remote, req>>

HashNext == CallHashPassword \/ CallVerifyPassword

SpecHash == HashInit /\ [][HashNext]_vars

(***************************************************************************)
(* Claims about password hashing (SpecHash)                                *)
(***************************************************************************)
HashRoundTrip ==
    /\ fn_out.verified # <<>> =>
          /\ fn_out.verified[1] = TRUE
          /\ fn_in.q # fn_in.p => fn_out.verified[2] = FALSE
    /\ \A i, j \in 1..Len(fn_out.digests) :
          i # j => fn_out.digests[i] # fn_out.digests[j]

PasswordRules(p) ==
    << [holds |-> p.len >= 8,
        message |-> "Password must be at least 8 characters long"],
       [holds |-> p.upper,
        message |-> "Password must contain at least one uppercase letter"],
       [holds |-> p.lower,
        message |-> "Password must contain at least one lowercase letter"],
       [holds |-> p.digit,
        message |-> "Password must contain at least one number"] >>

FailingRules(p) == {i \in 1..Len(PasswordRules(p)) : ~PasswordRules(p)[i].holds}

FirstFailing(p) ==
    CHOOSE i \in FailingRules(p) : \A j \in FailingRules(p) : i <= j

\* C23: validate_password accepts a password exactly when it has at least
\* 8 characters, an uppercase letter, a lowercase letter and a digit, and it
\* rejects any other password with status 400 and the one message of the
\* first rule, in that order, that the password fails.
C23_FirstFailingRule ==
    fn_out # Idle =>
        /\ fn_out.fn = "validate_password"
        /\ (fn_out.ret.kind = "ok") <=> (FailingRules(fn_in) = {})
        /\ FailingRules(fn_in) # {} =>
              fn_out.ret = HTTPException(400, PasswordRules(fn_in)[FirstFailing(fn_in)].message)

\* A seven-character password without an uppercase letter and without a
\* digit is refused for its length alone.
C23_Witness ==
    /\ fn_out # Idle
    /\ fn_in.len = 7 /\ ~fn_in.upper /\ fn_in.lower /\ ~fn_in.digit
    /\ fn_out.ret.kind = "http"
    /\ fn_out.ret.detail = "Password must be at least 8 characters long"

(***************************************************************************)
(* Claims about the existence check (SpecStore)                            *)
(***************************************************************************)
\* The rows of the mailbox of request s that are not soft-deleted.
ActiveNow(s) ==
    {e \in emails : /\ e.username = req[s].username
                    /\ e.domain = req[s].eff
                    /\ e.deleted_at = NoTime}

C21_CheckStep ==
    \A s \in Slots :
        req[s].pc = "lookup" /\ req'[s].pc # "lookup" =>
            /\ ~HasEvent(req[s].log, {"da_call", "db_write"})
            /\ (req[s].endpoint = "create_email" /\ ActiveNow(s) # {}) =>
                  req'[s].pc = "done" /\ req'[s].resp.status = 409
            /\ (req[s].endpoint \in {"delete_email", "change_password"}
                    /\ ActiveNow(s) = {}) =>
                  req'[s].pc = "done" /\ req'[s].resp.status = 404
            /\ UNCHANGED <<emails, remote, users>>

C21_Refused ==
    \A s \in Slots :
        ( /\ Done(s)
          /\ req[s].endpoint \in Mutating
          /\ req[s].resp.status \in {404, 409} )
        => /\ ~HasEvent(req[s].log, {"da_call", "db_write"})
           /\ HasEvent(req[s].log, {"select_email"})

\* C21: the existence check comes before the control-panel call: a create of
\* a mailbox that has an active row is answered 409, a delete or a password
\* change of a mailbox that has none (no row, or a soft-deleted one) 404, in
\* each case without a control-panel call and without a change of the rows
\* or of the control panel.
C21_ExistenceCheckFirst == []C21_Refused /\ [][C21_CheckStep]_vars

C21_Witness ==
    /\ Done("r1")
    /\ req["r1"].endpoint = "change_password"
    /\ req["r1"].resp.status = 404
    /\ <<"bob", "a.com">> \in remote
    /\ \E e \in emails : e.username = "bob" /\ e.domain = "a.com" /\ e.deleted_at # NoTime

\* C22: a create of a mailbox (u, d) that has a soft-deleted row succeeds, and
\* afterwards (u, d) has one row and that row is active.  (A create whose
\* commit fails for a reason of the database's own is left aside.)
C22_RecreateSucceeds ==
    \A s \in Slots :
        ( /\ Done(s)
          /\ req[s].endpoint = "create_email"
          /\ HasEvent(req[s].log, {"db_write"})
          /\ ~(req[s].resp.status = 500 /\ req[s].resp.arg = "OperationalError") )
        => /\ req[s].resp.status = 201
           /\ Cardinality(RowsFor(emails, req[s].username, req[s].eff)) = 1
           /\ \A e \in RowsFor(emails, req[s].username, req[s].eff) :
                 e.deleted_at = NoTime

(***************************************************************************)
(* SpecRoles: the process starts on an empty users table and creates the   *)
(* default admin; then, one request after another: registrations with any  *)
(* role, logins, and changes of role made with the tokens issued           *)
(***************************************************************************)
DefaultAdminPass == [head |-> "ChangeMe123!", tail |-> ""] @@ StrongPassword

RolesInit ==
    /\ PureIdle
    /\ now = ApiNow
    /\ JWT_SECRET = Secret
    /\ DEFAULT_DOMAIN = "a.com"
    /\ users = <<>>
    /\ reset_tokens = {}
    /\ emails = {}
    /\ journal = NoJournal
    /\ remote = {}
    /\ req = [s \in Slots |-> IdleRequest]
    /\ issued = {}
    /\ call = IdleCall

\* database.create_default_admin, called when the application starts
create_default_admin(salts) ==
    /\ users = <<>>
    /\ \E salt \in salts :
          users' = <<Identity("admin@example.com", hash_password(DefaultAdminPass, salt),
                              ADMIN, None, FALSE, TRUE, now)>>
    /\ UNCHANGED <<pureVars, issued, call, now, cfgVars, reset_tokens, emails, journal,
                   remote, req>>

Started == users # <<>>

RolesRegisterBegin ==
    /\ Started
    /\ BeginIdentity("r1", {"register"}, {NoCredentials}, {"a.com"}, {TestPass},
                     {[NoArgs EXCEPT !.email = "new@a.com", !.role = role] :
                         role \in UserRole})

RolesLoginBegin ==
    /\ Started
    /\ Cardinality(issued) < MaxSessions
    /\ BeginIdentity("r1", {"login"}, {NoCredentials}, {None},
                     {TestPass, DefaultAdminPass},
                     LoginArgs({"admin@example.com", "new@a.com"}))

RolesRoleBegin ==
    /\ Started
    /\ BeginIdentity("r1", {"update_user_role"}, IssuedTokens, {"a.com"}, {None},
                     {[NoArgs EXCEPT !.user_id = id, !.role = role] :
                         id \in DOMAIN users, role \in UserRole})

RolesNext ==
    \/ create_default_admin({"salt1"})
    \/ RolesRegisterBegin
    \/ RolesLoginBegin
    \/ RolesRoleBegin
    \/ Authenticate("r1")
    \/ ValidateBody("r1")
    \/ ValidatePassword("r1")
    \/ Login("r1")
    \/ SelectUser("r1")
    \/ InsertUser("r1", {"salt2"})
    \/ RequireAdmin("r1")
    \/ WriteUser("r1")
    \/ Finish("r1")

SpecRoles == RolesInit /\ [][RolesNext]_vars

(***************************************************************************)
(* Claims about who becomes admin (SpecRoles)                              *)
(***************************************************************************)
\* The identities that are admin after this step and were not before it.
NewAdmins ==
    {id \in DOMAIN users' :
        /\ users'[id].role = ADMIN
        /\ id \in DOMAIN users => users[id].role # ADMIN}

\* C31: an identity gets the role admin only in the startup creation of the
\* default admin, or in a step of update_user_role made for a caller whose
\* role is admin: never by a registration or by a caller of another role.
C31_AdminFromAdminOnly ==
    [][NewAdmins # {} =>
          \/ users = <<>>
          \/ \E s \in Slots : /\ req[s].endpoint = "update_user_role"
                              /\ req[s].current_user.role = ADMIN]_vars

(***************************************************************************)
(* A domain_admin without an assigned domain (SpecUnassigned)              *)
(***************************************************************************)
NoDomainId ==
    CHOOSE id \in DOMAIN ApiUsers :
        ApiUsers[id].role = DOMAIN_ADMIN /\ ~Truthy(ApiUsers[id].domain)

\* os.getenv("DEFAULT_DOMAIN"): the configured domain, or None when the
\* environment does not set one.
DefaultDomains == Domains \cup {None}

UnassignedInit ==
    /\ PureIdle
    /\ now = ApiNow
    /\ JWT_SECRET = Secret
    /\ DEFAULT_DOMAIN \in DefaultDomains
    /\ users = ApiUsers
    /\ \/ emails = {} /\ remote = {}
       \/ emails = ApiEmailRows /\ remote = ApiMailboxes
    /\ journal = NoJournal
    /\ reset_tokens = {}
    /\ req = [s \in Slots |-> IdleRequest]
    /\ issued = {}
    /\ call = IdleCall

\* Mailbox requests of that identity and of an admin, with a password that
\* passes validation.
UnassignedCredentials ==
    {LoginToken(ApiUsers, NoDomainId, Secret, ApiNow),
     LoginToken(ApiUsers, AdminId, Secret, ApiNow)}

UnassignedBegin ==
    Begin("r1", MailboxEndpoints, UnassignedCredentials, OptDomains, {"bob"}, {StrongPassword}, {DefaultQuota})

UnassignedNext ==
    \/ UnassignedBegin
    \/ Authenticate("r1")
    \/ ValidateBody("r1")
    \/ ValidatePassword("r1")
    \/ CheckTampering("r1")
    \/ ResolveDomain("r1")
    \/ CheckAccess("r1")
    \/ Lookup("r1")
    \/ RemoteFails("r1")
    \/ RemoteAnswers("r1")
    \/ Sync("r1")
    \/ LocalWrite("r1")

SpecUnassigned == UnassignedInit /\ [][UnassignedNext]_vars

\* C32: a domain_admin with no assigned domain is answered Forbidden on
\* every mailbox endpoint, with or without a domain parameter and whatever
\* the default domain is; no mailbox query, control-panel call or write is
\* made for such a caller.
Unassigned(s) ==
    /\ req[s].current_user.role = DOMAIN_ADMIN
    /\ ~Truthy(req[s].current_user.domain)

C32_UnassignedForbidden ==
    \A s \in MailboxRequests :
        Unassigned(s) =>
            /\ ~HasEvent(req[s].log, DataEvents)
            /\ Done(s) => req[s].resp.status = 403

StaleInit ==
    /\ PureIdle
    /\ now = ApiNow
    /\ JWT_SECRET = Secret
    /\ DEFAULT_DOMAIN = "a.com"
    /\ users = ApiUsers
    /\ emails = {EmailAccount(1, "bob", "a.com", DefaultQuota, AdminId, 1)}
    /\ remote = {<<"bob", "a.com">>}
    /\ journal = NoJournal
    /\ reset_tokens = {}
    /\ req = [s \in Slots |-> IdleRequest]
    /\ issued = {}
    /\ call = IdleCall

StaleCredentials == {LoginToken(ApiUsers, AdminId, Secret, ApiNow)}

StaleBegin(s) ==
    Begin(s, {"list_emails", "delete_email"}, StaleCredentials, {None}, {"bob"},
          {StrongPassword}, {DefaultQuota})

StaleNext ==
    \E s \in Slots :
        \/ StaleBegin(s)
        \/ Authenticate(s)
        \/ ValidateBody(s)
        \/ CheckTampering(s)
        \/ ResolveDomain(s)
        \/ CheckAccess(s)
        \/ Lookup(s)
        \/ RemoteFails(s)
        \/ RemoteAnswers(s)
        \/ Sync(s)
        \/ LocalWrite(s)
        \/ LocalWriteFails(s)
        \/ Finish(s)

SpecStale == StaleInit /\ [][StaleNext]_vars

\* C34: once a delete of (u, d) has completed, (u, d) has no active record
\* until a later create or a list pass whose remote list was fetched after
\* the delete and names u; a pass that fetched its list before the delete
\* does not make the record active again.  In SpecStale there is no create
\* and no remote list fetched after the delete names u, so a record that a
\* delete has made inactive stays inactive.
C34_DeletedStaysDeleted ==
    [][\A e \in emails :
          e.deleted_at # NoTime =>
              \A f \in emails' : f.id = e.id => f.deleted_at # NoTime]_vars

(***************************************************************************)
(* main.py: the side effects the handlers attempt after their commit, or   *)
(* (the reset) before it, each inside `try: ... except Exception as e:`    *)
(* that logs and goes on.  email_service._send_email catches whatever SMTP *)
(* raises and returns False.                                               *)
(***************************************************************************)
\* What the handler answers when a side effect has raised `failure`.
except_log_raising(primary, failure) == InternalError(failure)

except_log(primary, failure) == primary

\* POST /auth/register asking for a reset link, generate_reset_token or the
\* credentials e-mail failing: the row is committed before either is tried.
InsertUserEffectFails(s, salts) ==
    /\ req[s].pc = "insert_user"
    /\ req[s].args.recovery
    /\ ~UniqueEmailViolation(users, req[s].args.email)
    /\ LET r == req[s]
           id == Len(users) + 1
       IN  \E salt \in salts, tokenFails \in BOOLEAN :
              LET row == Identity(r.args.email, hash_password(r.password, salt),
                                  r.args.role, r.domain, r.args.recovery, TRUE, now)
                  ev == IF tokenFails
                        THEN <<Event("db_write", r.args.email),
                               Event("generate_reset_token failed", None)>>
                        ELSE <<Event("db_write", r.args.email),
                               Event("send_user_credentials failed", None)>>
              IN  /\ users' = Append(users, row)
                  /\ reset_tokens' = IF tokenFails THEN reset_tokens
                                     ELSE generate_reset_token(reset_tokens, id, now)
                  /\ Reply(s, ev, except_log(Response(201, [id |-> id] @@ row),
                                             ev[2].ev))
    /\ UNCHANGED <<pureVars, issued, call, now, cfgVars, emails, journal, remote>>

\* POST /emails with notify_email, send_email_account_credentials failing.
LocalWriteNotifyFails(s) ==
    /\ req[s].pc = "write"
    /\ req[s].endpoint = "create_email"
    /\ ~UniqueViolation(emails, req[s].username, req[s].eff)
    /\ LET r == req[s]
           ev == <<Event("db_write", r.eff),
                   Event("send_email_account_credentials failed", None)>>
           row == EmailAccount(NextRowId(emails), r.username, r.eff, r.quota_mb,
                               r.current_user.id, now)
       IN  /\ emails' = emails \cup {row}
           /\ journal' = Journal(Commit(r.endpoint, r.eff, r.username, r.da_emails))
           /\ Reply(s, ev, except_log(Response(201, row), ev[2].ev))
    /\ UNCHANGED <<pureVars, issued, call, now, cfgVars, users, reset_tokens, remote>>

\* user.email.split('@') for the addresses registered here: username, "@",
\* domain.
MailboxOf(email) ==
    CASE email = "new@a.com" -> <<"new", "@", "a.com">>
      [] email = "other@a.com" -> <<"other", "@", "a.com">>
      [] OTHER -> <<email, "@", None>>

\* POST /reset-password for an identity with a domain whose address has an
\* active mailbox record: client.change_password raises.
HasMailbox(user) ==
    /\ Truthy(user.domain)
    /\ \E e \in emails : /\ <<e.username, "@", e.domain>> = MailboxOf(user.email)
                         /\ e.deleted_at = NoTime

ResetWriteRemoteFails(s, salts) ==
    /\ req[s].pc = "reset_write"
    /\ LET r == req[s]
           row == CHOOSE k \in reset_tokens : k.token = r.args.token
           id == row.user_id
           ev == <<Event("change_password failed", None), Event("db_write", None)>>
       IN  /\ HasMailbox(users[id])
           /\ \E salt \in salts :
                 /\ users' = [users EXCEPT
                                 ![id].hashed_password = hash_password(r.password, salt),
                                 ![id].must_change_password = FALSE,
                                 ![id].updated_at = now]
                 /\ reset_tokens' = (reset_tokens \ {row}) \cup {[row EXCEPT !.used = TRUE]}
                 /\ Reply(s, ev, except_log(Response(302, "webmail"), ev[1].ev))
    /\ UNCHANGED <<pureVars, issued, call, now, cfgVars, emails, journal, remote>>

(***************************************************************************)
(* SpecEffects: registrations that ask for a reset link, reset             *)
(* submissions and mailbox creations by the admin, one request after       *)
(* another, every side effect succeeding or failing                        *)
(***************************************************************************)
EffectsCredentials == {LoginToken(IdentityUsers, 1, Secret, ApiNow)}

EffectsCreateBegin ==
    Begin("r1", {"create_email"}, EffectsCredentials, {"a.com"}, {"new", "bob"},
          {StrongPassword}, {DefaultQuota})

EffectsNext ==
    \/ RecoveryBegin
    \/ ResetBegin
    \/ EffectsCreateBegin
    \/ Authenticate("r1")
    \/ ValidateBody("r1")
    \/ ValidatePassword("r1")
    \/ SelectUser("r1")
    \/ InsertUser("r1", {"salt1"})
    \/ InsertUserEffectFails("r1", {"salt1"})
    \/ ResetCheck("r1")
    \/ ResetWrite("r1", {"salt2"})
    \/ ResetWriteRemoteFails("r1", {"salt2"})
    \/ CheckTampering("r1")
    \/ ResolveDomain("r1")
    \/ CheckAccess("r1")
    \/ Lookup("r1")
    \/ RemoteFails("r1")
    \/ RemoteAnswers("r1")
    \/ LocalWrite("r1")
    \/ LocalWriteNotifyFails("r1")
    \/ Finish("r1")

SpecEffects == IdentityInit /\ [][EffectsNext]_vars

\* C35: the failure of a non-critical side effect (reset-token generation or
\* the credentials e-mail during register, the notification e-mail during
\* create-mailbox, the remote password update during a password reset) does
\* not fail the primary operation: the request is answered with its success
\* response and the primary write is committed.
SideEffectFailed(s) ==
    /\ req[s].pc # "done"
    /\ req'[s].pc = "done"
    /\ \E i \in 1..Len(req'[s].log) :
          req'[s].log[i].ev \in {"generate_reset_token failed",
                                 "send_user_credentials failed",
                                 "send_email_account_credentials failed",
                                 "change_password failed"}

C36_ExpiryFromTtl ==
    \A i \in issued :
        i.token.exp = IF i.expires_delta = NoDelta
                      THEN i.iat + JWT_EXPIRE_MINUTES
                      ELSE i.iat + i.expires_delta

(***************************************************************************)
(* Claims about the delays between attempts (SpecClient)                   *)
(***************************************************************************)
\* C37: the delay slept after the failed attempt with zero-based index k is
\* exactly 2^k seconds (1 s after the first failure, 2 s after the second),
\* whatever the failures are; there is no delay after the final failed
\* attempt or after an attempt that is not retried.
C37_Backoff ==
    /\ Len(call.slept) = IF Ended /\ Attempts > 0 THEN Attempts - 1 ELSE Attempts
    /\ \A i \in 1..Len(call.slept) :
          /\ Failed(call.responses[i])
          /\ call.slept[i] = 2 ^ (i - 1)
    /\ Len(call.slept) >= 1 => call.slept[1] = 1
    /\ Len(call.slept) >= 2 => call.slept[2] = 2
    /\ Len(call.slept) < max_retries

C37_Witness ==
    /\ Ended
    /\ Attempts = 3
    /\ \A i \in 1..3 : Failed(call.responses[i])
    /\ call.slept = <<1, 2>>

(***************************************************************************)
(* SpecRestart: tokens issued and validated as time passes, the process    *)
(* being restarted in between.  auth.py reads JWT_SECRET once, when the    *)
(* module is loaded; with none in the environment it generates one with    *)
(* secrets.token_urlsafe(32), which each process does anew.                *)
(***************************************************************************)
\* secrets.token_urlsafe(32)
token_urlsafe == {"generated 1", "generated 2", "generated 3"}

RestartInit ==
    /\ PureIdle
    /\ now = 0
    /\ JWT_SECRET \in {Secret} \cup token_urlsafe
    /\ DEFAULT_DOMAIN = "a.com"
    /\ users = ApiUsers
    /\ emails = {}
    /\ journal = NoJournal
    /\ reset_tokens = {}
    /\ remote = {}
    /\ req = [s \in Slots |-> IdleRequest]
    /\ issued = {}
    /\ call = IdleCall

\* The process ends and a new one loads auth.py with no JWT_SECRET in the
\* environment: a secret no process had before.  The tokens issued stay
\* with their holders.
Restart ==
    /\ fn_out = Idle
    /\ \E k \in token_urlsafe :
          /\ k # JWT_SECRET
          /\ \A i \in issued : i.token.key # k
          /\ JWT_SECRET' = k
    /\ UNCHANGED <<pureVars, DEFAULT_DOMAIN, issued, call, now, apiVars>>

RestartNext == IssueToken \/ Tick \/ DecodeToken \/ Forget \/ Restart

SpecRestart == RestartInit /\ [][RestartNext]_vars

\* C38: the signing secret is fixed for the lifetime of a process (no step
\* that issues or validates a token, and no passing of time, changes it),
\* and a token issued under one secret never validates under another: after
\* a restart that generated a new secret every token issued before fails
\* validation with Unauthenticated, expired or not.
C38_Validation ==
    Decoded =>
        /\ fn_in.token.key # JWT_SECRET => fn_out.ret = Unauthenticated
        /\ fn_out.ret.kind = "ok" => fn_in.token.key = JWT_SECRET

C38_SecretFixed ==
    (issued' # issued \/ fn_out' # fn_out \/ now' # now) =>
        /\ JWT_SECRET' = JWT_SECRET
        /\ \A i \in issued' \ issued : i.token.key = JWT_SECRET

C38_SecretBinding == []C38_Validation /\ [][C38_SecretFixed]_vars

C38_Witness ==
    /\ Decoded
    /\ fn_in.token.key = Secret
    /\ JWT_SECRET = "generated 1"
    /\ now <= fn_in.token.exp
    /\ fn_out.ret = Unauthenticated
====
